---- MODULE Spec2Model ----
(***************************************************************************)
(* Model of the Chromium artifact extractors (History, Cookies, Downloads, *)
(* Bookmarks, Extensions): profile discovery, snapshot acquisition and     *)
(* release, the per-browser extraction pass with its failure handling, the *)
(* hand-over of the collected records to the output writer, and the        *)
(* Chromium timestamp converters.                                          *)
(*                                                                         *)
(* Spec      one run of a module's Start over the located browsers.        *)
(* SpecAsync the same run on the event loop: UIREDRAW that suspends,       *)
(*           raises or never completes, created tasks, cancellation.       *)
(* SpecPass  one extraction pass of one parser over one profile file,      *)
(*           under every environment the model distinguishes.              *)
(* SpecTime  the three convert_chrome_time functions applied to sampled    *)
(*           inputs (integers around the interesting instants, None and    *)
(*           strings) under a sampled local time zone.                     *)
(* SpecCookie  get_cookie_value and _decrypt_cookie_value applied to one   *)
(*           sampled cookie row and browser_cookie3 lookup.                *)
(* SpecSize  the progress of a download and _format_file_size applied to   *)
(*           sampled byte counts.                                          *)
(* SpecHistory  parse_history from its query on, over sampled urls tables. *)
(* SpecBookmarks  _parse_chrome_bookmarks over sampled Bookmarks documents.*)
(* SpecOracle  successive calls of _get_decrypted_cookies on one decryptor.*)
(* SpecExtensions  _parse_chrome_extensions over sampled folder listings.  *)
(***************************************************************************)
EXTENDS Integers, Sequences, FiniteSets, TLC

VARIABLES
    kind,         \* Spec: the artifact module being run
    connected,    \* Spec: DBCONNECTION.IsConnected()
    cookie3,      \* Spec: BROWSER_COOKIE3_AVAILABLE (the import succeeded)
    fs,           \* Spec: per browser, status of <config>/<folder>/Default/<file>
    disk,         \* Spec: temp files present in the scratch places: path -> content
    pc,           \* Spec: position of Start
    found,        \* Spec: the located browsers, as the discovery returned them
    i,            \* Spec: number of located browsers whose pass has ended
    last,         \* Spec: what the pass that ended last did (NoPass before the first)
    all_records,  \* Spec: records collected by Start
    written,      \* Spec: number of collected records already handed to the writer
    sink,         \* Spec: calls received by the output writer, in order
    log,          \* Spec: calls received by the logger, in order
    contrib,      \* Spec: per browser, number of records its pass returned
    uiredraw,     \* Spec: how the UIREDRAW coroutine behaves when awaited
    reported,     \* Spec: calls received by UIREDRAW, in order
    tasks,        \* Spec: progress values of the tasks created and not yet run
    cancel,       \* Spec: passes ended when cancellation was requested, else -1
    probe,        \* SpecPass: the pass to run: module, browser, file status, environment
    result,       \* SpecPass: the pass as the parser left it
    ta, tb,       \* SpecTime: the two sampled timestamps
    tz,           \* SpecTime: the local time zone of the host
    conv,         \* SpecTime: the converter that was applied ("none" before)
    ra, rb,       \* SpecTime: what the converter did on ta and on tb
    cookie,       \* SpecCookie: one cookie row and the browser_cookie3 map
    resolved,     \* SpecCookie: the call that was made and what it did
    sized,        \* SpecSize: the byte counts of one download
    shown,        \* SpecSize: the progress or the size text computed from them
    urls,         \* SpecHistory: the rows of the urls table, as stored
    history,      \* SpecHistory: what parse_history returned and logged
    bookmarks,    \* SpecBookmarks: the Bookmarks document
    marks,        \* SpecBookmarks: what _parse_chrome_bookmarks returned
    decryptor,    \* SpecOracle: BROWSER_COOKIE3_AVAILABLE and the decryptor's cache
    lookups,      \* SpecOracle: the calls of _get_decrypted_cookies made so far
    listing,      \* SpecExtensions: the version directories, in listing order
    extensions    \* SpecExtensions: what _parse_chrome_extensions returned

runVars == <<kind, connected, cookie3, fs, disk, pc, found, i, last, all_records, written,
             sink, log, contrib, uiredraw, reported, tasks, cancel>>
passVars == <<probe, result>>
timeVars == <<ta, tb, tz, conv, ra, rb>>
cookieVars == <<cookie, resolved>>
sizeVars == <<sized, shown>>
historyVars == <<urls, history>>
bookmarkVars == <<bookmarks, marks>>
oracleVars == <<decryptor, lookups>>
extensionVars == <<listing, extensions>>
moreVars == <<bookmarkVars, oracleVars, extensionVars>>
unitVars == <<cookieVars, sizeVars, historyVars, moreVars>>
vars == <<runVars, passVars, timeVars, unitVars>>

(***************************************************************************)
(* Bounds of the model.                                                    *)
(***************************************************************************)
MaxRows == 2        \* SpecPass: rows held by one table
MaxRunRows == 1     \* Spec: rows held by one table
MaxInstalled == 2   \* Spec: browsers with a profile entry on the host
MaxJitter == 1      \* SpecTime: microseconds a sampled timestamp is moved by

(***************************************************************************)
(* Static catalogue.                                                       *)
(***************************************************************************)
SUPPORTED_BROWSERS ==
    << <<"google-chrome", "Google Chrome">>,
       <<"chromium", "Chromium">>,
       <<"microsoft-edge", "Microsoft Edge">>,
       <<"opera", "Opera">>,
       <<"brave", "Brave">> >>

Browsers == 1..Len(SUPPORTED_BROWSERS)
BrowserFolder(b) == SUPPORTED_BROWSERS[b][1]
BrowserName(b) == SUPPORTED_BROWSERS[b][2]

\* Position of a display name in the declaration order (0 if unknown).
DeclIndex(name) ==
    IF \E b \in Browsers : BrowserName(b) = name
    THEN CHOOSE b \in Browsers : BrowserName(b) = name
    ELSE 0

Kinds == {"History", "Cookies", "Downloads", "Bookmarks", "Extensions"}
SQLiteKinds == {"History", "Cookies", "Downloads"}

\* The file (or folder) of the profile each module reads.
ArtifactFile(k) ==
    CASE k = "History" -> "History"
      [] k = "Downloads" -> "History"
      [] k = "Cookies" -> "Cookies"
      [] k = "Bookmarks" -> "Bookmarks"
      [] OTHER -> "Extensions"

\* os.path.join and os.path.dirname on the paths the program builds.
PathJoin(dir, name) == dir \o "/" \o name
ProfileDir(b) == PathJoin(PathJoin("~/.config", BrowserFolder(b)), "Default")

\* <config>/<folder>/Default/<file>: the path the discovery probes.
OrigPath(k, b) == PathJoin(ProfileDir(b), ArtifactFile(k))
OrigPaths == {OrigPath(k, b) : k \in Kinds, b \in Browsers}

\* Where each parser puts its temporary copy: History beside the original
\* (temp_dir = dirname(history_path)), Cookies and Downloads in parameters['TEMP'].
TempPath(k, b) ==
    CASE k = "History" ->
           PathJoin(ProfileDir(b), "temp_history_" \o ArtifactFile(k))
      [] k = "Cookies" -> PathJoin("TEMP", "temp_cookies_" \o ArtifactFile(k))
      [] OTHER -> PathJoin("TEMP", "temp_downloads_" \o ArtifactFile(k))

\* The file the parser hands to sqlite3.connect.
ConnectPathOriginal(k, b) == OrigPath(k, b)

ConnectPath(k, b) == TempPath(k, b)

\* What the host holds at a path: nothing ("absent"), a file below a
\* directory the user may not search ("noaccess"), a file the user may not
\* read ("unreadable"), a file the user may read ("readable").
FileStatus == {"absent", "noaccess", "unreadable", "readable"}

\* os.path.exists: stat succeeds. A file without read permission still exists;
\* a path below a directory that cannot be searched does not.
\* The same test taking every error of stat but ENOENT for "exists".
PathExistsUnlessENOENT(st) == st # "absent"

PathExists(st) == st \in {"readable", "unreadable"}

(***************************************************************************)
(* SQLite stores.  A store is what the copied file holds: whether the      *)
(* expected table exists, the columns it has, and its rows in the order    *)
(* the query returns them.  A row is "ok", or "bad": the row loop raises   *)
(* on it (a timestamp or integer column holding non-numeric text; in the   *)
(* cookies parser also a row whose value the browser_cookie3 lookup knows, *)
(* get_cookie_value reaching for an attribute the decryptor lacks).        *)
(***************************************************************************)
CookieColumns ==
    {"creation_utc", "host_key", "name", "value", "encrypted_value", "path",
     "expires_utc", "is_secure", "is_httponly", "last_access_utc", "has_expires",
     "is_persistent", "priority", "samesite", "last_update_utc"}

UrlColumns == {"url", "title", "visit_count", "typed_count", "last_visit_time"}

DownloadColumns ==
    {"id", "target_path", "tab_url", "tab_referrer_url", "start_time", "end_time",
     "received_bytes", "total_bytes", "state", "danger_type", "interrupt_reason",
     "opened", "last_access_time"}

\* The columns the SELECT of each parser names.
QueryColumns(k) ==
    CASE k = "History" -> UrlColumns
      [] k = "Cookies" -> CookieColumns
      [] OTHER -> DownloadColumns

\* Schemas a store may have: the current one and, for cookies, the older
\* ones (no encrypted_value; persistent instead of is_persistent).
Schemas(k) ==
    IF k = "Cookies" THEN {"current", "no_encrypted_value", "persistent"}
    ELSE {"current"}

\* The columns of the table under each schema.
Columns(k, schema) ==
    CASE k = "Cookies" /\ schema = "no_encrypted_value" ->
           CookieColumns \ {"encrypted_value"}
      [] k = "Cookies" /\ schema = "persistent" ->
           (CookieColumns \ {"is_persistent"}) \cup {"persistent"}
      [] OTHER -> QueryColumns(k)

RowSeqs(max) == UNION {[1..n -> {"ok", "bad"}] : n \in 0..max}

NoStore == [table |-> FALSE, schema |-> "current", rows |-> <<>>]

Stores(k, max) ==
    {NoStore}
    \cup {[table |-> TRUE, schema |-> c, rows |-> r] :
            c \in Schemas(k), r \in RowSeqs(max)}

\* What a copy that broke off midway leaves behind.
Truncated == NoStore

(***************************************************************************)
(* What the environment does during one pass.                              *)
(*   gone     the file was deleted after the discovery saw it              *)
(*   copy     "ok" | "fail_clean" (nothing created) | "fail_partial"       *)
(*   connect  "ok" | "fail" (sqlite3.Error)                                *)
(*   check    "ok" | "fail": the sqlite_master lookup raises sqlite3.Error *)
(*   query    "ok" | "fail": the driver fails on the SELECT for a reason   *)
(*            other than the schema (locked, corrupt page)                 *)
(*   store    the content of the file                                      *)
(*   oracle   the browser_cookie3 lookup of the cookies parser:            *)
(*            "unavailable" (not importable) | "ok" | "fail" (it raises);  *)
(*            "unused" for the other parsers                               *)
(* Choices that a pass never gets to, or that cannot change what it does,  *)
(* are left at one value.                                                  *)
(***************************************************************************)
Env(g, c, n, h, q, s) ==
    [gone |-> g, copy |-> c, connect |-> n, check |-> h, query |-> q, store |-> s,
     oracle |-> "unused"]

Oracles(k) == IF k = "Cookies" THEN {"unavailable", "ok", "fail"} ELSE {"unused"}

FileEnvs(k, st, max) ==
    {Env(TRUE, "ok", "ok", "ok", "ok", NoStore)}
    \cup {Env(FALSE, "fail_clean", "ok", "ok", "ok", NoStore)}
    \cup (IF st # "readable" THEN {}
          ELSE IF k \in SQLiteKinds
          THEN {Env(FALSE, "fail_partial", "ok", "ok", "ok", NoStore),
                Env(FALSE, "ok", "fail", "ok", "ok", NoStore),
                Env(FALSE, "ok", "ok", "fail", "ok", NoStore),
                Env(FALSE, "ok", "ok", "ok", "fail",
                    [table |-> TRUE, schema |-> "current", rows |-> <<>>])}
               \cup {Env(FALSE, "ok", "ok", "ok", "ok", s) : s \in Stores(k, max)}
          ELSE {Env(FALSE, "ok", "ok", "ok", "ok", s) :
                  s \in {t \in Stores(k, max) : t.table}})

Envs(k, st, max) ==
    {[e EXCEPT !.oracle = o] : e \in FileEnvs(k, st, max), o \in Oracles(k)}

\* The first thing in an environment that keeps a pass from the plain
\* outcome, in the order the parsers meet them.
Fault(k, e) ==
    CASE e.gone -> "gone"
      [] e.copy # "ok" -> "copy"
      [] e.connect # "ok" -> "connect"
      [] e.check # "ok" -> "check"
      [] ~e.store.table -> "no_table"
      [] e.query # "ok" -> "driver"
      [] k \in SQLiteKinds /\ ~(QueryColumns(k) \subseteq Columns(k, e.store.schema))
           -> "schema"
      [] \E n \in DOMAIN e.store.rows : e.store.rows[n] = "bad" -> "row"
      [] OTHER -> "none"

(***************************************************************************)
(* The running pass: p.disk the temp files, p.conn the file the open       *)
(* connection is attached to (Closed: none), p.exc the exception in        *)
(* flight, p.results the list the parser returns, p.logs what it logged,   *)
(* p.acc the file accesses it made, p.entered whether the snapshot scope   *)
(* was entered, p.mark the length of p.logs when the parser turned to the  *)
(* file, p.way how the pass ended.                                         *)
(***************************************************************************)
Closed == ""

NewPass(d) ==
    [disk |-> d, conn |-> Closed, exc |-> "none", results |-> <<>>, logs |-> <<>>,
     acc |-> {}, entered |-> FALSE, mark |-> 0, way |-> "running"]

Access(path, op) == [path |-> path, op |-> op]

\* shutil.copy2(src, dst): reads src, creates dst; OSError on failure.
copy2(src, dst, content, outcome, p) ==
    CASE outcome = "ok" ->
           [p EXCEPT !.disk = (dst :> content) @@ p.disk,
                     !.acc = @ \cup {Access(src, "copy_read"), Access(dst, "create")}]
      [] outcome = "fail_partial" ->
           [p EXCEPT !.disk = (dst :> Truncated) @@ p.disk,
                     !.acc = @ \cup {Access(src, "copy_read"), Access(dst, "create")},
                     !.exc = "other"]
      [] OTHER -> [p EXCEPT !.exc = "other"]

\* sqlite3.connect(path)
connect(path, outcome, p) ==
    IF outcome = "ok"
    THEN [p EXCEPT !.conn = path, !.acc = @ \cup {Access(path, "connect")}]
    ELSE [p EXCEPT !.exc = "sqlite"]

\* os.remove(path) guarded by os.path.exists(path)
remove_if_exists(path, p) ==
    IF path \in DOMAIN p.disk
    THEN [p EXCEPT !.disk = [x \in (DOMAIN p.disk) \ {path} |-> p.disk[x]],
                   !.acc = @ \cup {Access(path, "remove")}]
    ELSE p

\* SELECT name FROM sqlite_master WHERE type='table' AND name=<table>
table_exists(e, p) ==
    IF e.check = "ok"
    THEN [p EXCEPT !.acc = @ \cup {Access(p.conn, "query")}]
    ELSE [p EXCEPT !.exc = "sqlite"]

\* The table check left out: the SELECT on the missing table raises
\* sqlite3.OperationalError.
table_absent_raise(p) == [p EXCEPT !.exc = "sqlite"]

\* if not cursor.fetchone(): return results
table_absent_return(p) == [p EXCEPT !.way = "no_table"]

\* cursor.execute(query): naming a column the table lacks is an
\* sqlite3.OperationalError.
execute_select(k, e, p) ==
    IF e.query = "ok" /\ QueryColumns(k) \subseteq Columns(k, e.store.schema)
    THEN [p EXCEPT !.acc = @ \cup {Access(p.conn, "query")}]
    ELSE [p EXCEPT !.exc = "sqlite"]

\* The file a record is read from: the profile file, for an extension the
\* manifest.json below <Extensions>/<id>/<version>.
SourceFile(k, b) ==
    IF k = "Extensions"
    THEN PathJoin(PathJoin(OrigPath(k, b), "<id>/<version>"), "manifest.json")
    ELSE OrigPath(k, b)

\* The last field of a record (DataSource): History passes the browser name,
\* the other parsers the path of the file.
DataSource(k, b) == IF k = "History" THEN BrowserName(b) ELSE SourceFile(k, b)

MakeRecord(k, b, n) ==
    [browser |-> BrowserName(b), row |-> n, source |-> DataSource(k, b)]

\* The row loop: one record per row, in order; a bad row raises (TypeError
\* from convert_chrome_time, ValueError from int()) and ends the loop.
RECURSIVE RowLoop(_, _, _, _, _)
RowLoop(k, b, rs, n, recs) ==
    IF n > Len(rs) THEN [raised |-> FALSE, recs |-> recs]
    ELSE IF rs[n] = "bad" THEN [raised |-> TRUE, recs |-> recs]
    ELSE RowLoop(k, b, rs, n + 1, Append(recs, MakeRecord(k, b, n)))

LogEntry(level, k) == [level |-> level, module |-> "Chromium" \o k]

\* except sqlite3.Error -> LOG.Warn; except Exception -> LOG.Error
ExceptOnlySqlite(p, k) ==
    IF p.exc = "sqlite"
    THEN [p EXCEPT !.logs = Append(@, LogEntry("Warn", k)), !.exc = "none",
                   !.way = "exception"]
    ELSE [p EXCEPT !.way = "exception"]

Except(p, k) ==
    CASE p.exc = "sqlite" ->
           [p EXCEPT !.logs = Append(@, LogEntry("Warn", k)), !.exc = "none",
                     !.way = "exception"]
      [] p.exc = "other" ->
           [p EXCEPT !.logs = Append(@, LogEntry("Error", k)), !.exc = "none",
                     !.way = "exception"]
      [] OTHER -> p

(***************************************************************************)
(* History: DatabaseManager and HistoryParser.parse_history.               *)
(***************************************************************************)
\* __enter__: copy the file beside itself, connect to the copy.  The scope
\* is entered only when both succeed.
DatabaseManager_enter(b, e, p) ==
    LET p1 == copy2(OrigPath("History", b), TempPath("History", b), e.store, e.copy, p)
        p2 == IF p1.exc = "none" THEN connect(ConnectPath("History", b), e.connect, p1)
              ELSE p1
    IN  [p2 EXCEPT !.entered = (p2.exc = "none")]

\* __exit__ without the removal: the connection is closed, the copy stays.
DatabaseManager_exit_keep(b, p) == [p EXCEPT !.conn = Closed]

\* __exit__: close the connection, remove the temp file if it exists.
DatabaseManager_exit(b, p) ==
    remove_if_exists(TempPath("History", b), [p EXCEPT !.conn = Closed])

\* The body of the with-block; an exception leaves it through __exit__.
HistoryWithBody(b, e, p) ==
    LET p1 == table_exists(e, p) IN
    IF p1.exc # "none" THEN p1
    ELSE IF ~e.store.table THEN table_absent_return(p1)
    ELSE LET p2 == execute_select("History", e, p1) IN
         IF p2.exc # "none" THEN p2
         ELSE LET r == RowLoop("History", b, e.store.rows, 1, <<>>) IN
              \* results is assigned only when _process_rows returns
              IF r.raised THEN [p2 EXCEPT !.exc = "other"]
              ELSE [p2 EXCEPT !.results = r.recs, !.way = "normal"]

parse_history(b, e, d) ==
    IF e.gone THEN [NewPass(d) EXCEPT !.way = "not_found"]
    ELSE LET p1 == DatabaseManager_enter(b, e, NewPass(d)) IN
         IF ~p1.entered
         THEN Except(p1, "History")   \* raised in __enter__: no __exit__
         ELSE Except(DatabaseManager_exit(b, HistoryWithBody(b, e, p1)), "History")

(***************************************************************************)
(* Cookies and Downloads: copy, connect and query inside one               *)
(* try / except / finally.                                                 *)
(***************************************************************************)
TryBody(k, b, e, p) ==
    LET p1 == copy2(OrigPath(k, b), TempPath(k, b), e.store, e.copy, p)
        p2 == [p1 EXCEPT !.entered = (p1.exc = "none")]
        p3 == IF p2.exc = "none" THEN connect(ConnectPath(k, b), e.connect, p2) ELSE p2
        p4 == IF p3.exc = "none" THEN table_exists(e, p3) ELSE p3
    IN  IF p4.exc # "none" THEN p4
        ELSE IF ~e.store.table THEN table_absent_return(p4)
        ELSE LET p5 == execute_select(k, e, p4) IN
             IF p5.exc # "none" THEN p5
             ELSE LET r == RowLoop(k, b, e.store.rows, 1, <<>>) IN
                  \* results.append in place: what was built stays
                  IF r.raised THEN [p5 EXCEPT !.results = r.recs, !.exc = "other"]
                  ELSE [p5 EXCEPT !.results = r.recs, !.way = "normal"]

\* finally: if 'conn' in locals(): conn.close(); remove the temp file if it exists
Finally(k, b, p) == remove_if_exists(TempPath(k, b), [p EXCEPT !.conn = Closed])

\* CookieDecryptor._get_decrypted_cookies: without browser_cookie3 a Warn;
\* with it an Info, the lookup, and an Info (or an Error when it raises).
get_decrypted_cookies(e, p) ==
    LET said == CASE e.oracle = "unavailable" -> <<LogEntry("Warn", "Cookies")>>
                  [] e.oracle = "ok" ->
                       <<LogEntry("Info", "Cookies"), LogEntry("Info", "Cookies")>>
                  [] OTHER ->
                       <<LogEntry("Info", "Cookies"), LogEntry("Error", "Cookies")>>
    IN  [p EXCEPT !.logs = @ \o said, !.mark = Len(p.logs) + Len(said)]

parse_cookies_file(b, e, d) ==
    LET p0 == get_decrypted_cookies(e, NewPass(d)) IN
    IF e.gone THEN [p0 EXCEPT !.way = "not_found"]
    ELSE Finally("Cookies", b, Except(TryBody("Cookies", b, e, p0), "Cookies"))

parse_chrome_downloads(b, e, d) ==
    IF e.gone THEN [NewPass(d) EXCEPT !.way = "not_found"]
    ELSE Finally("Downloads", b,
                 Except(TryBody("Downloads", b, e, NewPass(d)), "Downloads"))

(***************************************************************************)
(* Bookmarks and Extensions read the profile in place.                     *)
(***************************************************************************)
\* open(bookmarks_path) and json.load inside try/except Exception (print).
\* Every url node calls self._convert_chrome_time, which the class does not
\* define: the AttributeError is caught per node and the node yields nothing.
parse_chrome_bookmarks(b, e, d) ==
    IF e.gone THEN [NewPass(d) EXCEPT !.way = "not_found"]
    ELSE IF e.copy # "ok" THEN [NewPass(d) EXCEPT !.way = "exception"]
    ELSE [NewPass(d) EXCEPT !.acc = {Access(OrigPath("Bookmarks", b), "read")},
                            !.way = "normal"]

\* os.listdir and open(manifest_path) inside try/except Exception (print):
\* an exception ends the scan and keeps the records built so far.
parse_chrome_extensions(b, e, d) ==
    IF e.gone THEN [NewPass(d) EXCEPT !.way = "not_found"]
    ELSE IF e.copy # "ok" THEN [NewPass(d) EXCEPT !.way = "exception"]
    ELSE LET r == RowLoop("Extensions", b, e.store.rows, 1, <<>>) IN
         [NewPass(d) EXCEPT !.acc = {Access(OrigPath("Extensions", b), "read")},
                            !.results = r.recs,
                            !.way = IF r.raised THEN "exception" ELSE "normal"]

Parse(k, b, e, d) ==
    CASE k = "History" -> parse_history(b, e, d)
      [] k = "Cookies" -> parse_cookies_file(b, e, d)
      [] k = "Downloads" -> parse_chrome_downloads(b, e, d)
      [] k = "Bookmarks" -> parse_chrome_bookmarks(b, e, d)
      [] OTHER -> parse_chrome_extensions(b, e, d)

(***************************************************************************)
(* Discovery.                                                              *)
(***************************************************************************)
\* for folder, name in BROWSERS: if os.path.exists(path): append
RECURSIVE LocateFrom(_, _)
LocateFrom(status, b) ==
    IF b > Len(SUPPORTED_BROWSERS) THEN <<>>
    ELSE (IF PathExists(status[b]) THEN <<b>> ELSE <<>>) \o LocateFrom(status, b + 1)

\* The same loop, each hit put in front of the list.
RECURSIVE LocateFromReversed(_, _)
LocateFromReversed(status, b) ==
    IF b > Len(SUPPORTED_BROWSERS) THEN <<>>
    ELSE LocateFromReversed(status, b + 1) \o
         (IF PathExists(status[b]) THEN <<b>> ELSE <<>>)

get_browser_paths_reversed(status) == LocateFromReversed(status, 1)

get_browser_paths(status) == LocateFrom(status, 1)

\* Bookmarks.Start probes google-chrome only.
Locate(k, status) ==
    IF k = "Bookmarks"
    THEN (IF PathExists(status[1]) THEN <<1>> ELSE <<>>)
    ELSE get_browser_paths(status)

(***************************************************************************)
(* Timestamps.  A Chromium timestamp counts microseconds from              *)
(* 1601-01-01T00:00:00Z.  TLC's integers have 32 bits, so an integer t is  *)
(* held as days, second of the day and microsecond of the second, with     *)
(*    t = (days * 86400 + sod) * 1000000 + us,                             *)
(* sod in 0..86399 and us in 0..999999 (days is negative before 1601).     *)
(* A value handed to a converter is an int, None, or a str given by its    *)
(* character codes.                                                        *)
(***************************************************************************)
SecondsPerDay == 24 * 60 * 60
MicrosPerSecond == 1000 * 1000

IntValue(d, s, u) == [type |-> "int", chars |-> <<>>, days |-> d, sod |-> s, us |-> u]
NoneValue == [type |-> "none", chars |-> <<>>, days |-> 0, sod |-> 0, us |-> 0]
StrValue(cs) == [type |-> "str", chars |-> cs, days |-> 0, sod |-> 0, us |-> 0]

\* An instant at second resolution: n seconds after [days, sod].
AddSeconds(inst, n) ==
    LET tot == inst.sod + n IN
    [days |-> inst.days + (tot \div SecondsPerDay), sod |-> tot % SecondsPerDay]

\* t + k microseconds, for small k.
AddMicros(t, k) ==
    LET u == t.us + k
        inst == AddSeconds([days |-> t.days, sod |-> t.sod], u \div MicrosPerSecond)
    IN  IntValue(inst.days, inst.sod, u % MicrosPerSecond)

\* Order of instants and of integer timestamps.
InstLeq(x, y) == x.days < y.days \/ (x.days = y.days /\ x.sod <= y.sod)

IntLeq(a, b) ==
    \/ a.days < b.days
    \/ a.days = b.days /\ a.sod < b.sod
    \/ a.days = b.days /\ a.sod = b.sod /\ a.us <= b.us

IsZero(t) == t.days = 0 /\ t.sod = 0 /\ t.us = 0
IsNegative(t) == t.days < 0

\* Python's truth value: None, 0 and '' are false.
Truthy(t) ==
    CASE t.type = "none" -> FALSE
      [] t.type = "int" -> ~IsZero(t)
      [] OTHER -> t.chars # <<>>

\* chrome_timestamp == 0 and chrome_timestamp == '0'
EqualsZero(t) == t.type = "int" /\ IsZero(t)
EqualsStrZero(t) == t.type = "str" /\ t.chars = <<48>>

\* int(text) accepts a text of decimal digits; any other text is a
\* ValueError.
IsDigits(cs) == cs # <<>> /\ \A n \in DOMAIN cs : cs[n] \in 48..57

\* The number the first n characters of a short text of digits denote.
RECURSIVE Number(_, _)
Number(cs, n) == IF n = 0 THEN 0 ELSE Number(cs, n - 1) * 10 + (cs[n] - 48)

\* The digits of weight 10^lo up to 10^(hi-1) of a text, as a number.
Group(cs, lo, hi) ==
    LET first == IF Len(cs) > hi THEN Len(cs) - hi + 1 ELSE 1
        part == SubSeq(cs, first, Len(cs) - lo)
    IN  Number(part, Len(part))

\* int(text) for a text of at most 18 digits: the microseconds are its last
\* six digits, the seconds the digits before them, taken in groups of
\* weight 1, 10^6 and 10^9 seconds.
int(cs) ==
    LET s0 == Group(cs, 6, 12)
        s6 == Group(cs, 12, 15)
        s9 == Group(cs, 15, 18)
        inst == AddSeconds([days |-> s6 * (10^6 \div SecondsPerDay)
                                       + s9 * (10^9 \div SecondsPerDay),
                            sod |-> 0],
                           s0 + s6 * (10^6 % SecondsPerDay)
                              + s9 * (10^9 % SecondsPerDay))
    IN  IntValue(inst.days, inst.sod, Group(cs, 0, 6))

(***************************************************************************)
(* chrome_timestamp / 1_000_000 is a binary64 division and the datetime    *)
(* keeps microseconds: the quotient is rounded to 53 bits and then to a    *)
(* microsecond.  With 2^e <= |seconds| < 2^(e+1) the floats are 2^(e-52)   *)
(* apart, so a timestamp less than half that step before a whole second    *)
(* becomes that second.                                                    *)
(***************************************************************************)
\* |t|
Magnitude(t) ==
    IF t.days >= 0 THEN t
    ELSE LET borrow == IF t.us > 0 THEN 1 ELSE 0
             inst == AddSeconds([days |-> -t.days, sod |-> 0], -(t.sod + borrow))
         IN  IntValue(inst.days, inst.sod, (MicrosPerSecond - t.us) % MicrosPerSecond)

\* Twice a count of seconds.
Double(p) == AddSeconds([days |-> 2 * p.days, sod |-> 0], 2 * p.sod)

\* 2^34 seconds.
Pow2Seconds34 ==
    Double(Double(Double(Double(AddSeconds([days |-> 0, sod |-> 0], 2 ^ 30)))))

\* The binary exponent of m seconds, for m of 2^33 seconds or more (33
\* stands for every smaller one: the step is then below a microsecond);
\* next is 2^(e+1) seconds.
RECURSIVE ExponentFrom(_, _, _)
ExponentFrom(m, e, next) ==
    IF e < 46 /\ InstLeq(next, m) THEN ExponentFrom(m, e + 1, Double(next)) ELSE e

Exponent(t) == ExponentFrom(Magnitude(t), 33, Pow2Seconds34)

\* The whole second in which t / 1_000_000 lies once rounded.
FloatSecond(t) ==
    LET halfStep == MicrosPerSecond \div (2 ^ (53 - Exponent(t)))   \* in microseconds, floored
        here == [days |-> t.days, sod |-> t.sod]
    IN  IF MicrosPerSecond - t.us <= halfStep THEN AddSeconds(here, 1) ELSE here

(***************************************************************************)
(* The proleptic Gregorian calendar of datetime, counted from 1601-01-01   *)
(* (the first day of a 400-year cycle, a Monday).                          *)
(***************************************************************************)
IsLeap(y) == (y % 4 = 0 /\ y % 100 # 0) \/ y % 400 = 0

\* Days of the year before the first of month m (m = 13: the whole year).
DaysBeforeMonth(y, m) ==
    <<0, 31, 59, 90, 120, 151, 181, 212, 243, 273, 304, 334, 365>>[m]
      + (IF m > 2 /\ IsLeap(y) THEN 1 ELSE 0)

\* Days from 1601-01-01 to y-m-d.
DaysFromCivil(y, m, d) ==
    LET yy == y - 1601 IN
    yy * 365 + (yy \div 4) - (yy \div 100) + (yy \div 400)
      + DaysBeforeMonth(y, m) + (d - 1)

Min(x, y) == IF x <= y THEN x ELSE y

\* The date of day doy (from 0) of year y.
MonthOf(y, doy) ==
    LET m == CHOOSE k \in 1..12 :
                DaysBeforeMonth(y, k) <= doy /\ doy < DaysBeforeMonth(y, k + 1)
    IN  [year |-> y, month |-> m, day |-> doy - DaysBeforeMonth(y, m) + 1]

\* The date of the day that is `days` days after 1601-01-01.
Civil(days) ==
    LET n400 == days \div 146097
        r400 == days % 146097
        n100 == Min(r400 \div 36524, 3)
        r100 == r400 - n100 * 36524
        n4 == r100 \div 1461
        r4 == r100 % 1461
        n1 == Min(r4 \div 365, 3)
        y == 1601 + 400 * n400 + 100 * n100 + 4 * n4 + n1
    IN  MonthOf(y, r4 - n1 * 365)

\* datetime holds the years MINYEAR..MAXYEAR (1..9999).
InDatetimeRange(days) == Civil(days).year \in 1..9999

\* The n-th Sunday of month m of year y, as a day count.
NthSunday(y, m, n) ==
    LET first == DaysFromCivil(y, m, 1)
        weekday == first % 7     \* 0 is Monday
    IN  first + ((6 - weekday) % 7) + 7 * (n - 1)

(***************************************************************************)
(* The host's time zone, as the TZ setting.  localtime adds the zone's     *)
(* offset: none, a fixed three hours, or US Eastern time, whose daylight   *)
(* rule the C library applies from 1970 on (second Sunday of March 02:00   *)
(* to first Sunday of November 02:00, local time).                         *)
(***************************************************************************)
Zones == {"UTC", "<+03>-3", "EST5EDT,M3.2.0,M11.1.0"}

FixedZones == {"UTC", "<+03>-3"}

utcoffset(zone, inst) ==
    CASE zone = "UTC" -> 0
      [] zone = "<+03>-3" -> 3 * 3600
      [] OTHER ->
           LET y == Civil(inst.days).year
               start == [days |-> NthSunday(y, 3, 2), sod |-> 7 * 3600]
               end == [days |-> NthSunday(y, 11, 1), sod |-> 6 * 3600]
           IN  IF y >= 1970 /\ InstLeq(start, inst) /\ ~InstLeq(end, inst)
               THEN -4 * 3600
               ELSE -5 * 3600

localtime(zone, inst) == AddSeconds(inst, utcoffset(zone, inst))

(***************************************************************************)
(* The three converters.  A text is the sequence of its character codes,   *)
(* so that two results can be compared as Python compares strings.         *)
(***************************************************************************)
Returned(text) == [raised |-> "none", text |-> text]
Raised(exception) == [raised |-> exception, text |-> <<>>]

RECURSIVE Digits(_)
Digits(n) == IF n < 10 THEN <<48 + n>> ELSE Digits(n \div 10) \o <<48 + (n % 10)>>

TwoDigits(n) == <<48 + (n \div 10), 48 + (n % 10)>>

\* '%Y.%d.%m %H:%M:%S': day and month exchanged.
strftime_day_first(inst) ==
    LET c == Civil(inst.days) IN
    Digits(c.year) \o <<46>> \o TwoDigits(c.day) \o <<46>> \o TwoDigits(c.month)
      \o <<32>> \o TwoDigits(inst.sod \div 3600)
      \o <<58>> \o TwoDigits((inst.sod % 3600) \div 60)
      \o <<58>> \o TwoDigits(inst.sod % 60)

\* strftime('%Y.%m.%d %H:%M:%S'); the C library does not pad %Y.
strftime(inst) ==
    LET c == Civil(inst.days) IN
    Digits(c.year) \o <<46>> \o TwoDigits(c.month) \o <<46>> \o TwoDigits(c.day)
      \o <<32>> \o TwoDigits(inst.sod \div 3600)
      \o <<58>> \o TwoDigits((inst.sod % 3600) \div 60)
      \o <<58>> \o TwoDigits(inst.sod % 60)

\* 'Ошибка конвертации'
ErrorText ==
    <<1054, 1096, 1080, 1073, 1082, 1072, 32,
      1082, 1086, 1085, 1074, 1077, 1088, 1090, 1072, 1094, 1080, 1080>>

\* 11644473600 seconds, the distance of the Unix epoch from 1601, in days.
EpochOffsetDays == 134774

\* (chrome_timestamp / 1000000) - 11644473600, as a Unix instant.
unix_timestamp(t) ==
    LET f == FloatSecond(t) IN [days |-> f.days - EpochOffsetDays, sod |-> f.sod]

\* datetime.fromtimestamp(unix): the local time of the instant; ValueError
\* when its year is past 9999, or when the local time one day earlier,
\* which fromtimestamp also computes, is before year 1.
\* (Between year 1 and 1697 the subtraction above is itself rounded; the
\* timestamps of the model are the ones around 1601-01-01 and from 1697 on,
\* where it is exact to the second.)
fromtimestamp(zone, unix) ==
    LET inst == [days |-> unix.days + DaysFromCivil(1970, 1, 1), sod |-> unix.sod]
        local == localtime(zone, inst)
        dayBefore == localtime(zone, AddSeconds(inst, -SecondsPerDay))
    IN  [ok |-> Civil(dayBefore.days).year >= 1 /\ Civil(local.days).year <= 9999,
         local |-> local]

\* Common/time_utils.convert_chrome_time
Common_convert_chrome_time(t) ==
    IF ~Truthy(t) \/ EqualsZero(t) THEN Returned(<<>>)
    ELSE IF t.type = "str" THEN Raised("TypeError")     \* str / int, outside the try
    ELSE LET result_time == FloatSecond(t) IN
         IF InDatetimeRange(result_time.days)
         THEN Returned(strftime(result_time))
         ELSE Returned(<<>>)                             \* OverflowError

\* Interfaces/time.convert_chrome_time
Interfaces_convert_chrome_time(t, zone) ==
    IF ~Truthy(t) \/ EqualsZero(t) \/ EqualsStrZero(t) THEN Returned(<<>>)
    ELSE IF t.type = "str" /\ ~IsDigits(t.chars) THEN Returned(ErrorText)   \* ValueError
    ELSE LET n == IF t.type = "str" THEN int(t.chars) ELSE t
             dt == fromtimestamp(zone, unix_timestamp(n))
         IN  IF dt.ok THEN Returned(strftime(dt.local)) ELSE Returned(ErrorText)

\* TimeConverter.convert_chrome_time of the history module
TimeConverter_convert_chrome_time(t, zone) ==
    IF ~Truthy(t) \/ EqualsZero(t) THEN Returned(<<>>)
    ELSE IF t.type = "str" THEN Raised("TypeError")     \* str / int, not caught
    ELSE LET dt == fromtimestamp(zone, unix_timestamp(t)) IN
         IF dt.ok THEN Returned(strftime(dt.local)) ELSE Returned(<<>>)

\* a <= b on Python strings (code point by code point, a prefix first).
RECURSIVE LexLeqFrom(_, _, _)
LexLeqFrom(a, b, n) ==
    IF n > Len(a) THEN TRUE
    ELSE IF n > Len(b) THEN FALSE
    ELSE IF a[n] # b[n] THEN a[n] < b[n]
    ELSE LexLeqFrom(a, b, n + 1)

LexLeq(a, b) == LexLeqFrom(a, b, 1)

(***************************************************************************)
(* The timestamps the converters are tried on: the epoch itself, a visit   *)
(* of 2023, the second at which US Eastern clocks go back in 2023, a       *)
(* far-future second, the last three hours of year 9999, the first second  *)
(* of year 10000 and 10^18, each moved by up to MaxJitter microseconds;    *)
(* None; and the texts '0', '', 'abc' and '13318267369295313'.             *)
(***************************************************************************)
Anchors ==
    {IntValue(0, 0, 0),
     IntValue(154146, 52969, 295313),      \* 13318267369295313
     IntValue(154440, 21600, 0),           \* 13343637600000000
     IntValue(3067129, 54400, 0),          \* 265000000000000000
     IntValue(3067670, 75600, 0),          \* 265046763600000000
     IntValue(3067671, 0, 0),              \* 265046774400000000
     IntValue(11574074, 6400, 0)}          \* 10^18

Texts ==
    {<<48>>, <<>>, <<97, 98, 99>>,
     <<49, 51, 51, 49, 56, 50, 54, 55, 51, 54, 57, 50, 57, 53, 51, 49, 51>>}

Samples ==
    {AddMicros(a, k) : a \in Anchors, k \in (-MaxJitter)..MaxJitter}
    \cup {NoneValue}
    \cup {StrValue(cs) : cs \in Texts}

(***************************************************************************)
(* Cookie values.  A stored value is None, an int, a str (its code points) *)
(* or bytes (its bytes); a string the resolver returns is its code points. *)
(***************************************************************************)
BytesValue(bs) == [type |-> "bytes", chars |-> bs, days |-> 0, sod |-> 0, us |-> 0]

MaxBlob == 3        \* SpecCookie: length of the blobs that are enumerated in full

\* s.startswith(prefix) and s[a:b] (0 <= a <= b), on str and on bytes.
StartsWith(s, prefix) ==
    Len(s) >= Len(prefix) /\ SubSeq(s, 1, Len(prefix)) = prefix

Slice(s, a, b) == SubSeq(s, a + 1, Min(b, Len(s)))

\* UTF-8 over the bytes the sampled blobs are made of: ASCII, the two-byte
\* sequences (lead 0xC2..0xDF, continuation 0x80..0xBF), and bytes that start
\* no sequence.  SequenceAt is the length of the well-formed sequence that
\* starts at bs[k], 0 if there is none.
Continuation(b) == b >= 128 /\ b <= 191

SequenceAt(bs, k) ==
    CASE bs[k] < 128 -> 1
      [] bs[k] >= 194 /\ bs[k] <= 223 /\ k < Len(bs) /\ Continuation(bs[k + 1]) -> 2
      [] OTHER -> 0

CodePointAt(bs, k) ==
    IF bs[k] < 128 THEN bs[k] ELSE (bs[k] - 192) * 64 + (bs[k + 1] - 128)

\* bs[k] is the second byte of a two-byte sequence (a lead byte is never
\* itself a continuation, so the byte before it decides).
Consumed(bs, k) == k > 1 /\ SequenceAt(bs, k - 1) = 2

\* The positions at which a code point starts, in order.
Starts(bs) ==
    SelectSeq([k \in 1..Len(bs) |-> k],
              LAMBDA k : ~Consumed(bs, k) /\ SequenceAt(bs, k) > 0)

\* bytes.decode('utf-8', errors='ignore'): a byte that starts no well-formed
\* sequence is left out of the text.
decode_ignore(bs) == [j \in DOMAIN Starts(bs) |-> CodePointAt(bs, Starts(bs)[j])]

\* bytes.decode(): UnicodeDecodeError on such a byte.
decode(bs) ==
    IF \E k \in 1..Len(bs) : ~Consumed(bs, k) /\ SequenceAt(bs, k) = 0
    THEN Raised("UnicodeDecodeError")
    ELSE Returned(decode_ignore(bs))

\* str.isprintable and str.isspace of one character below U+0100.
isprintable(c) == (c >= 32 /\ c <= 126) \/ (c >= 161 /\ c <= 255 /\ c # 173)

isspace(c) == (c >= 9 /\ c <= 13) \/ (c >= 28 /\ c <= 32) \/ c = 133 \/ c = 160

\* any(c.isprintable() or c.isspace() for c in decoded[:100])
AnyReadable(decoded) ==
    \E k \in 1..Min(100, Len(decoded)) : isprintable(decoded[k]) \/ isspace(decoded[k])

\* f"[бинарные данные: {len(encrypted_value)} байт]"
BinaryPlaceholder(n) ==
    <<91, 1073, 1080, 1085, 1072, 1088, 1085, 1099, 1077, 32,
      1076, 1072, 1085, 1085, 1099, 1077, 58, 32>>
      \o Digits(n) \o <<32, 1073, 1072, 1081, 1090, 93>>

\* f"[зашифровано AES-GCM v{encrypted_value[1:3].decode()}: {len(encrypted_value)} байт]"
VersionPlaceholder(version, n) ==
    <<91, 1079, 1072, 1096, 1080, 1092, 1088, 1086, 1074, 1072, 1085, 1086, 32,
      65, 69, 83, 45, 71, 67, 77, 32, 118>>
      \o version \o <<58, 32>> \o Digits(n) \o <<32, 1073, 1072, 1081, 1090, 93>>

\* 'v10' and 'v11' (as str and as bytes the same codes).
V10 == <<118, 49, 48>>
V11 == <<118, 49, 49>>

\* The handler of _decrypt_cookie_value, `except:`, evaluates
\* len(encrypted_value) itself: an int has no len().
ExceptBinary(encrypted_value) ==
    IF encrypted_value.type \in {"str", "bytes"}
    THEN Returned(BinaryPlaceholder(Len(encrypted_value.chars)))
    ELSE Raised("TypeError")

\* The same function without its branch for the version prefixes.
decrypt_cookie_value_unversioned(encrypted_value) ==
    IF ~Truthy(encrypted_value) THEN Returned(<<>>)
    ELSE IF encrypted_value.type # "bytes" THEN ExceptBinary(encrypted_value)
    ELSE IF /\ decode_ignore(encrypted_value.chars) # <<>>
            /\ AnyReadable(decode_ignore(encrypted_value.chars))
         THEN Returned(Slice(decode_ignore(encrypted_value.chars), 0, 500))
         ELSE Returned(BinaryPlaceholder(Len(encrypted_value.chars)))

\* CookieDecryptor._decrypt_cookie_value.  A value that is not bytes has no
\* decode(bytes-style): the AttributeError goes to the handler.
decrypt_cookie_value(encrypted_value) ==
    IF ~Truthy(encrypted_value) THEN Returned(<<>>)
    ELSE IF encrypted_value.type # "bytes" THEN ExceptBinary(encrypted_value)
    ELSE LET decoded == decode_ignore(encrypted_value.chars)
             version == decode(Slice(encrypted_value.chars, 1, 3))
         IN  IF /\ decoded # <<>>
                /\ ~(StartsWith(decoded, V10) \/ StartsWith(decoded, V11))
                /\ AnyReadable(decoded)
             THEN Returned(Slice(decoded, 0, 500))
             ELSE IF StartsWith(encrypted_value.chars, V10)
                       \/ StartsWith(encrypted_value.chars, V11)
             THEN IF version.raised # "none" THEN ExceptBinary(encrypted_value)
                  ELSE Returned(VersionPlaceholder(version.text,
                                                   Len(encrypted_value.chars)))
             ELSE Returned(BinaryPlaceholder(Len(encrypted_value.chars)))

\* The attributes an instance of CookieDecryptor has: __init__ assigns
\* self.__parameters and self.__decrypted_cookies_cache, names the class
\* body mangles.
CookieDecryptorAttributes ==
    {"_CookieDecryptor__parameters", "_CookieDecryptor__decrypted_cookies_cache"}

\* f"{host_key}|{name}" of two str.
LookupKey(host_key, name) == host_key.chars \o <<124>> \o name.chars

\* Whether the lookup of browser_cookie3 holds the cookie.
InOracle(name, host_key, decrypted_cookies) ==
    /\ Truthy(name) /\ Truthy(host_key)
    /\ LookupKey(host_key, name) \in DOMAIN decrypted_cookies

\* The same function asking the lookup before the plain value.
get_cookie_value_lookup_first(name, host_key, value, encrypted_value, decrypted_cookies) ==
    IF InOracle(name, host_key, decrypted_cookies)
    THEN IF "_parameters" \in CookieDecryptorAttributes
         THEN Returned(decrypted_cookies[LookupKey(host_key, name)])
         ELSE Raised("AttributeError")
    ELSE IF Truthy(value) THEN Returned(value.chars)
    ELSE IF Truthy(encrypted_value) THEN decrypt_cookie_value(encrypted_value)
    ELSE Returned(<<>>)

\* CookieValueResolver.get_cookie_value.  On a hit of the lookup the code
\* first logs through self.cookie_decryptor._parameters.
get_cookie_value(name, host_key, value, encrypted_value, decrypted_cookies) ==
    IF Truthy(value) THEN Returned(value.chars)
    ELSE IF InOracle(name, host_key, decrypted_cookies)
    THEN IF "_parameters" \in CookieDecryptorAttributes
         THEN Returned(decrypted_cookies[LookupKey(host_key, name)])
         ELSE Raised("AttributeError")
    ELSE IF Truthy(encrypted_value) THEN decrypt_cookie_value(encrypted_value)
    ELSE Returned(<<>>)

\* The sampled cookies.
ByteAlphabet == {118, 49, 48, 1, 255, 195, 169}

Blobs(max) == UNION {[1..n -> ByteAlphabet] : n \in 0..max}

\* A version prefix followed by 20 bytes.
LongBlobs ==
    {V10 \o [k \in 1..20 |-> b] : b \in {1, 48, 255}} \cup {V11 \o [k \in 1..20 |-> 1]}

EncryptedValues ==
    {BytesValue(bs) : bs \in Blobs(MaxBlob) \cup LongBlobs}
    \cup {NoneValue, StrValue(V10), StrValue(<<97, 98, 99>>),
          IntValue(0, 0, 0), IntValue(0, 0, 7)}

CookieNames == {StrValue(<<>>), StrValue(<<115, 105, 100>>)}

HostKeys == {NoneValue, StrValue(<<46, 97, 46, 99, 111, 109>>)}

PlainValues == {NoneValue, StrValue(<<>>), StrValue(<<97, 98, 99>>)}

\* What browser_cookie3 gave: nothing, the cookie '.a.com|sid', another one.
OracleMaps ==
    {<<>>,
     <<46, 97, 46, 99, 111, 109, 124, 115, 105, 100>> :> <<100, 101, 99>>,
     <<46, 97, 46, 99, 111, 109, 124, 122>> :> <<122, 122>>}

Cookie(name, host_key, value, encrypted_value, decrypted_cookies) ==
    [name |-> name, host_key |-> host_key, value |-> value,
     encrypted_value |-> encrypted_value, decrypted_cookies |-> decrypted_cookies]

NoCookie == Cookie(NoneValue, NoneValue, NoneValue, NoneValue, <<>>)

Unresolved == [call |-> "none", out |-> Returned(<<>>)]

CookieIdle == cookie = NoCookie /\ resolved = Unresolved

(***************************************************************************)
(* Downloads: progress and sizes.  An INTEGER column holds NULL or a       *)
(* number.  A byte count given to _format_file_size is written in base     *)
(* 1024, least significant digit first: <<d0, d1, d2, d3, top>> is         *)
(* d0 + d1*1024 + d2*1024^2 + d3*1024^3 + top*1024^4 (top of any size),    *)
(* so that a division by 1024.0 moves the point by one digit; below 2^53   *)
(* bytes these divisions are exact in double precision.                    *)
(***************************************************************************)
MaxBytes == 100     \* SpecSize: largest total_bytes of the sampled downloads
MaxTera == 2        \* SpecSize: the top digit of a byte count runs over 0..MaxTera

Null == [null |-> TRUE, n |-> 0]
Integer(n) == [null |-> FALSE, n |-> n]

\* int(row[k]) if row[k] is not None else 0
IntOrZero(v) == IF v.null THEN 0 ELSE v.n

\* The hundredths m/100 (0 <= m <= 100) whose double times 100.0 is the
\* double just below m: (29 / 100) * 100 is 28.999999999999996.
ShortProducts == {29, 57, 58}

\* int((received / total) * 100) for total > 0 and 0 <= received <= total.
\* The quotient is exactly m/100 for a whole m, or its hundredfold is farther
\* from a whole number than the rounding of the two operations can reach.
Hundredfold(received, total) ==
    IF (received * 100) % total = 0 /\ ((received * 100) \div total) \in ShortProducts
    THEN ((received * 100) \div total) - 1
    ELSE (received * 100) \div total

\* progress = 0
\* if total_bytes and total_bytes > 0:
\*     progress = min(100, int((received_bytes / total_bytes) * 100))
\* for received_bytes >= -total_bytes; int() rounds towards zero.
progress(received_bytes, total_bytes) ==
    IF ~(total_bytes # 0 /\ total_bytes > 0) THEN 0
    ELSE IF received_bytes < 0 THEN Min(100, -Hundredfold(-received_bytes, total_bytes))
    ELSE IF received_bytes > total_bytes THEN 100
    ELSE Min(100, Hundredfold(received_bytes, total_bytes))

\* ['B', 'KB', 'MB', 'GB'] and 'TB'
Units == << <<66>>, <<75, 66>>, <<77, 66>>, <<71, 66>>, <<84, 66>> >>

\* not bytes_size
IsZeroCount(n) == \A k \in DOMAIN n : n[k] = 0

\* bytes_size < 1024.0 after u divisions by 1024.0
Below1024(n, u) == \A k \in (u + 2)..Len(n) : n[k] = 0

\* Ten times a fraction given by its base-1024 digits (least significant
\* first): the whole part (tenths) and the digits of what is left.
RECURSIVE TimesTen(_, _, _, _)
TimesTen(frac, k, carry, rest) ==
    IF k > Len(frac) THEN [tenths |-> carry, rest |-> rest]
    ELSE TimesTen(frac, k + 1, (10 * frac[k] + carry) \div 1024,
                  Append(rest, (10 * frac[k] + carry) % 1024))

\* How a fraction compares with one half: -1 below, 0 equal, 1 above.
AgainstHalf(rest) ==
    IF rest = <<>> THEN -1
    ELSE IF rest[Len(rest)] > 512 THEN 1
    ELSE IF rest[Len(rest)] < 512 THEN -1
    ELSE IF \E k \in 1..(Len(rest) - 1) : rest[k] # 0 THEN 1
    ELSE 0

\* The tenths of whole + 0.frac cut off, not rounded.
Tenths_truncated(whole, frac) == 10 * whole + TimesTen(frac, 1, 0, <<>>).tenths

\* The number of tenths f"{x:.1f}" shows for x = whole + 0.frac: the nearest,
\* the even one on a tie.
Tenths(whole, frac) ==
    LET t == TimesTen(frac, 1, 0, <<>>)
        half == AgainstHalf(t.rest)
    IN  10 * whole + t.tenths
          + (IF half = 1 \/ (half = 0 /\ t.tenths % 2 = 1) THEN 1 ELSE 0)

\* f"{bytes_size:.1f} {unit}" after u divisions
Rendered(n, u) ==
    Digits(Tenths(n[u + 1], SubSeq(n, 1, u)) \div 10) \o <<46>>
      \o <<48 + (Tenths(n[u + 1], SubSeq(n, 1, u)) % 10)>> \o <<32>> \o Units[u + 1]

\* The loop over the units; after the fourth division the unit is TB.
RECURSIVE FormatFrom(_, _)
FormatFrom(n, u) ==
    IF u = 4 \/ Below1024(n, u) THEN Rendered(n, u) ELSE FormatFrom(n, u + 1)

\* _format_file_size (Downloads FileSizeFormatter and Interfaces/time.py)
format_file_size(bytes_size) ==
    IF IsZeroCount(bytes_size) THEN <<48, 32, 66>> ELSE FormatFrom(bytes_size, 0)

\* The sampled downloads and byte counts.
SizeDigits == {0, 1, 256, 512, 768, 1023}

ByteCounts ==
    {<<d0, d1, d2, d3, top>> :
       d0 \in SizeDigits, d1 \in SizeDigits, d2 \in SizeDigits, d3 \in SizeDigits,
       top \in (0..MaxTera) \cup {1023, 1024}}

Sized(op, received, total, size) ==
    [op |-> op, received |-> received, total |-> total, size |-> size]

SizedInputs ==
    {Sized("progress", r, t, <<0, 0, 0, 0, 0>>) :
       r \in {Null} \cup {Integer(n) : n \in (-1)..(2 * MaxBytes)},
       t \in {Null} \cup {Integer(n) : n \in (-1)..MaxBytes}}
    \cup {Sized("size", Null, Null, n) : n \in ByteCounts}

NotShown == [done |-> FALSE, progress |-> 0, text |-> <<>>]

SizeIdle == sized = Sized("none", Null, Null, <<0, 0, 0, 0, 0>>) /\ shown = NotShown

(***************************************************************************)
(* The rows of the urls table.  url and title hold NULL or text, the two   *)
(* counts NULL or a number, last_visit_time NULL, a number or text.        *)
(***************************************************************************)
MaxUrls == 2        \* SpecHistory: rows held by the urls table

UrlRow(url, title, visit_count, typed_count, last_visit_time) ==
    [url |-> url, title |-> title, visit_count |-> visit_count,
     typed_count |-> typed_count, last_visit_time |-> last_visit_time]

\* SQLite's order of values: NULL first, then numbers, then text.
StorageClass(v) ==
    CASE v.type = "none" -> 0
      [] v.type = "int" -> 1
      [] OTHER -> 2

SqlLeq(a, b) ==
    \/ StorageClass(a) < StorageClass(b)
    \/ /\ StorageClass(a) = StorageClass(b)
       /\ CASE a.type = "none" -> TRUE
            [] a.type = "int" -> IntLeq(a, b)
            [] OTHER -> LexLeq(a.chars, b.chars)

Orderings(n) == {p \in [1..n -> 1..n] : \A a, b \in 1..n : p[a] = p[b] => a = b}

\* The same query with ORDER BY last_visit_time ASC.
select_urls_ascending(rows) ==
    {[j \in DOMAIN rows |-> rows[p[j]]] :
       p \in {q \in Orderings(Len(rows)) :
                \A j \in 1..(Len(rows) - 1) :
                   SqlLeq(rows[q[j]].last_visit_time, rows[q[j + 1]].last_visit_time)}}

\* SELECT url, title, visit_count, typed_count, last_visit_time FROM urls
\* ORDER BY last_visit_time DESC: the results fetchall() may give (rows
\* with equal keys come in either order).
select_urls(rows) ==
    {[j \in DOMAIN rows |-> rows[p[j]]] :
       p \in {q \in Orderings(Len(rows)) :
                \A j \in 1..(Len(rows) - 1) :
                   SqlLeq(rows[q[j + 1]].last_visit_time, rows[q[j]].last_visit_time)}}

\* url or '', title or ''
OrEmpty(v) == IF Truthy(v) THEN v.chars ELSE <<>>

\* visit_count or 0, typed_count or 0
OrZero(v) == IF v.null \/ v.n = 0 THEN 0 ELSE v.n

\* last_visit_time or 0
TimeOrZero(t) == IF Truthy(t) THEN t ELSE IntValue(0, 0, 0)

\* The record of _process_rows.
HistoryRecord(username, browser_name, row, visit_date) ==
    [username |-> username, browser |-> browser_name,
     url |-> OrEmpty(row.url), title |-> OrEmpty(row.title),
     visit_count |-> OrZero(row.visit_count), typed_count |-> OrZero(row.typed_count),
     last_visit_time |-> TimeOrZero(row.last_visit_time),
     visit_date |-> visit_date, source |-> browser_name]

\* HistoryParser._process_rows: an exception of the converter leaves the loop.
RECURSIVE process_rows(_, _, _, _, _, _)
process_rows(fetched, username, browser_name, zone, k, results) ==
    IF k > Len(fetched) THEN [raised |-> "none", results |-> results]
    ELSE IF TimeConverter_convert_chrome_time(fetched[k].last_visit_time, zone).raised
              # "none"
    THEN [raised |-> TimeConverter_convert_chrome_time(fetched[k].last_visit_time,
                                                       zone).raised,
          results |-> results]
    ELSE process_rows(fetched, username, browser_name, zone, k + 1,
                      Append(results,
                             HistoryRecord(username, browser_name, fetched[k],
                               TimeConverter_convert_chrome_time(
                                   fetched[k].last_visit_time, zone).text)))

\* parse_history from the query on: results = self._process_rows(...) is
\* assigned only when _process_rows returns; except Exception logs an Error.
history_from_query(fetched, username, browser_name, zone) ==
    LET r == process_rows(fetched, username, browser_name, zone, 1, <<>>)
    IN  [done |-> TRUE,
         results |-> IF r.raised = "none" THEN r.results ELSE <<>>,
         logs |-> IF r.raised = "none" THEN <<>>
                  ELSE <<LogEntry("Error", "History")>>]

\* The sampled rows.
UrlRows ==
    {UrlRow(u, t, c[1], c[2], v) :
       u \in {NoneValue, StrValue(<<117>>)},
       t \in {NoneValue, StrValue(<<116>>)},
       c \in {<<Null, Null>>, <<Integer(5), Integer(2)>>},
       v \in {NoneValue, IntValue(0, 0, 0), IntValue(154146, 52969, 295313),
              IntValue(154146, 52969, 295314), StrValue(<<97, 98, 99>>)}}

UrlTables(max) == UNION {[1..n -> UrlRows] : n \in 0..max}

NoHistory == [done |-> FALSE, results |-> <<>>, logs |-> <<>>]

HistoryIdle == urls = <<>> /\ history = NoHistory

(***************************************************************************)
(* The Bookmarks document and its walk.                                    *)
(***************************************************************************)
MaxChildren == 2    \* SpecBookmarks: children held by one folder

\* A key the JSON object does not hold; dict.get(key, default).
Absent == [type |-> "absent", chars |-> <<>>, days |-> 0, sod |-> 0, us |-> 0]
get(value, default) == IF value = Absent THEN default ELSE value

\* {} (falsy) and an object of the document with the keys the walk reads.
EmptyObject ==
    [type |-> "", name |-> Absent, url |-> Absent, date_added |-> Absent,
     date_modified |-> Absent, children |-> <<>>]
Node(type, name, url, date_added, children) ==
    [type |-> type, name |-> name, url |-> url, date_added |-> date_added,
     date_modified |-> Absent, children |-> children]

bookmark_bar == <<98, 111, 111, 107, 109, 97, 114, 107, 95, 98, 97, 114>>
other == <<111, 116, 104, 101, 114>>
synced == <<115, 121, 110, 99, 101, 100>>

\* The dictionary of root labels, .get(root_name, root_name).
RootFolderName(root_name) ==
    CASE root_name = bookmark_bar ->
           <<1055, 1072, 1085, 1077, 1083, 1100, 32,
             1079, 1072, 1082, 1083, 1072, 1076, 1086, 1082>>
      [] root_name = other ->
           <<1044, 1088, 1091, 1075, 1080, 1077, 32,
             1079, 1072, 1082, 1083, 1072, 1076, 1082, 1080>>
      [] root_name = synced ->
           <<1057, 1080, 1085, 1093, 1088, 1086, 1085, 1080, 1079, 1080, 1088, 1086,
             1074, 1072, 1085, 1085, 1099, 1077>>
      [] OTHER -> root_name

NoName == StrValue(<<1041, 1077, 1079, 32, 1080, 1084, 1077, 1085, 1080>>)

\* What an instance of the Bookmarks Parser holds: the methods of the class
\* and the attribute set by __init__.
BookmarksParserAttributes ==
    {"__init__", "_parse_chrome_bookmarks", "_process_bookmark_node", "Start",
     "_Parser__parameters"}

\* The method kept as a comment at the head of the class.
commented_convert_chrome_time(t, zone) ==
    IF ~Truthy(t) \/ EqualsZero(t) \/ EqualsStrZero(t) THEN Returned(<<>>)
    ELSE IF t.type = "str" /\ ~IsDigits(t.chars) THEN Returned(ErrorText)
    ELSE LET n == IF t.type = "str" THEN int(t.chars) ELSE t
             dt == fromtimestamp(zone, unix_timestamp(n))
         IN  IF dt.ok THEN Returned(strftime(dt.local)) ELSE Returned(ErrorText)

\* self._convert_chrome_time(t): the attribute lookup comes first.
self_convert_chrome_time(t, zone) ==
    IF "_convert_chrome_time" \in BookmarksParserAttributes
    THEN commented_convert_chrome_time(t, zone)
    ELSE Raised("AttributeError")

\* int(date) if date and date != '0' else 0, for a str; int() of a text
\* that is no number raises ValueError.
DateNumber(date) ==
    IF date.type # "str" THEN [raised |-> "none", value |-> date]
    ELSE IF ~Truthy(date) \/ EqualsStrZero(date)
         THEN [raised |-> "none", value |-> IntValue(0, 0, 0)]
    ELSE IF IsDigits(date.chars) THEN [raised |-> "none", value |-> int(date.chars)]
    ELSE [raised |-> "ValueError", value |-> IntValue(0, 0, 0)]

Bookmark(browser_name, current_path, node, added, added_text, modified, modified_text, data_source) ==
    [username |-> <<105, 118, 97, 110>>, browser |-> browser_name,
     folder |-> current_path, title |-> get(node.name, NoName).chars,
     url |-> get(node.url, StrValue(<<>>)).chars,
     date_added |-> added, date_added_text |-> added_text,
     date_modified |-> modified, date_modified_text |-> modified_text,
     source |-> data_source]

RECURSIVE Flatten(_)
Flatten(lists) == IF lists = <<>> THEN <<>> ELSE Head(lists) \o Flatten(Tail(lists))

\* The url branch: the tuple is built inside try/except Exception, which
\* prints and leaves the node without a record.
url_node(node, current_path, browser_name, data_source, zone) ==
    LET added == DateNumber(get(node.date_added, IntValue(0, 0, 0)))
        modified == DateNumber(get(node.date_modified, IntValue(0, 0, 0)))
        added_text == self_convert_chrome_time(added.value, zone)
        modified_text == self_convert_chrome_time(modified.value, zone)
    IN  IF \/ added.raised # "none" \/ modified.raised # "none"
           \/ added_text.raised # "none" \/ modified_text.raised # "none"
        THEN <<>>
        ELSE <<Bookmark(browser_name, current_path, node, added.value, added_text.text,
                        modified.value, modified_text.text, data_source)>>

RECURSIVE process_bookmark_node(_, _, _, _, _)
process_bookmark_node(node, current_path, browser_name, data_source, zone) ==
    IF node = EmptyObject THEN <<>>
    ELSE IF node.type = "url"
         THEN url_node(node, current_path, browser_name, data_source, zone)
    ELSE IF node.type = "folder"
         THEN LET new_path == current_path \o <<47>> \o get(node.name, NoName).chars
              IN  Flatten([n \in DOMAIN node.children |->
                             process_bookmark_node(node.children[n], new_path,
                                                   browser_name, data_source, zone)])
    ELSE <<>>

\* _parse_chrome_bookmarks from json.load on: a text that is no JSON raises
\* inside try/except Exception; the roots are walked in the order of the
\* document.
bookmarks_from_json(document, bookmarks_path, browser_name, zone) ==
    IF ~document.parseable THEN <<>>
    ELSE Flatten([n \in DOMAIN document.roots |->
                    IF document.roots[n].node = EmptyObject THEN <<>>
                    ELSE process_bookmark_node(
                             document.roots[n].node,
                             RootFolderName(document.roots[n].name),
                             browser_name, bookmarks_path, zone)])

\* Sampled documents.
UrlNodes ==
    {Node("url", StrValue(<<97>>), StrValue(<<104, 116, 116, 112, 58, 47, 47, 97>>),
          date, <<>>) :
       date \in {Absent, StrValue(<<48>>),
                 StrValue(<<49, 51, 51, 49, 56, 50, 54, 55, 51, 54, 57, 50, 57, 53, 51,
                            49, 51>>)}}
Leaves == UrlNodes \cup {Node("separator", Absent, Absent, Absent, <<>>)}
UpTo(S, max) == UNION {[1..n -> S] : n \in 0..max}
Folder(name, children) == Node("folder", name, Absent, Absent, children)
Folders == {Folder(StrValue(<<102>>), cs) : cs \in UpTo(Leaves, MaxChildren)}
RootNodes ==
    {Folder(StrValue(<<66, 111, 111, 107, 109, 97, 114, 107, 115, 32, 98, 97, 114>>), cs) :
       cs \in UpTo(Leaves \cup Folders, MaxChildren)}
Root(name, node) == [name |-> name, node |-> node]
Documents ==
    {[parseable |-> FALSE, roots |-> <<>>]}
      \cup {[parseable |-> TRUE, roots |-> <<Root(bookmark_bar, r), Root(other, o)>>] :
              r \in RootNodes \cup {EmptyObject},
              o \in {EmptyObject, Folder(Absent, <<>>)}
                      \cup {Folder(Absent, <<u>>) : u \in UrlNodes}}

NoMarks == [done |-> FALSE, results |-> <<>>]

BookmarksIdle == bookmarks = [parseable |-> FALSE, roots |-> <<>>] /\ marks = NoMarks

(***************************************************************************)
(* The cache of the browser_cookie3 maps in one CookieDecryptor.           *)
(***************************************************************************)
MaxLookups == 3     \* SpecOracle: calls of _get_decrypted_cookies on one decryptor

\* str.lower() on the names the catalogue holds.
lower(text) ==
    [n \in DOMAIN text |-> IF text[n] \in 65..90 THEN text[n] + 32 ELSE text[n]]

\* part in text, for str.
Substring(part, text) ==
    \E k \in 0..(Len(text) - Len(part)) : SubSeq(text, k + 1, k + Len(part)) = part

\* The function of browser_cookie3 the name selects.
JarFunction(browser_name) ==
    LET name == lower(browser_name) IN
    CASE Substring(<<99, 104, 114, 111, 109, 101>>, name) -> "chrome"
      [] Substring(<<99, 104, 114, 111, 109, 105, 117, 109>>, name) -> "chromium"
      [] Substring(<<101, 100, 103, 101>>, name) -> "edge"
      [] Substring(<<111, 112, 101, 114, 97>>, name) -> "opera"
      [] Substring(<<98, 114, 97, 118, 101>>, name) -> "brave"
      [] OTHER -> "chrome"

\* decrypted_cookies[f"{cookie.domain}|{cookie.name}"] = cookie.value for
\* the cookies taken from the jar, a later cookie replacing an earlier one
\* of the same key.
JarKey(c) == c.domain \o <<124>> \o c.name
JarMap(cookies) ==
    [key \in {JarKey(cookies[n]) : n \in DOMAIN cookies} |->
       LET at == CHOOSE n \in DOMAIN cookies :
                    /\ JarKey(cookies[n]) = key
                    /\ \A m \in DOMAIN cookies : JarKey(cookies[m]) = key => m <= n
       IN  cookies[at].value]

\* What the collection does when it is made: the cookies of the jar, and
\* the number of cookies handed over before it raises (-1: it does not).
Jar(cookies, raised_after) == [cookies |-> cookies, raised_after |-> raised_after]

\* The collection is made on every call.
CookieDecryptor_get_decrypted_cookies_uncached(browser_name, available, cache, jar) ==
    LET cache_key == lower(browser_name)
        taken == IF jar.raised_after < 0 THEN jar.cookies
                 ELSE SubSeq(jar.cookies, 1, jar.raised_after)
    IN  IF ~available
        THEN [cache |-> cache, out |-> <<>>, invoked |-> "none", raised |-> FALSE,
              logs |-> <<LogEntry("Warn", "Cookies")>>]
        ELSE [cache |-> (cache_key :> JarMap(taken)) @@ cache, out |-> JarMap(taken),
              invoked |-> JarFunction(browser_name), raised |-> jar.raised_after >= 0,
              logs |-> <<LogEntry("Info", "Cookies"),
                         LogEntry(IF jar.raised_after >= 0 THEN "Error" ELSE "Info",
                                  "Cookies")>>]

\* CookieDecryptor._get_decrypted_cookies: the cache is looked up under the
\* lower-cased name; without browser_cookie3 an empty map is returned and
\* nothing is cached; otherwise the jar is collected inside try/except
\* Exception and the map built so far is cached and returned.
CookieDecryptor_get_decrypted_cookies(browser_name, available, cache, jar) ==
    LET cache_key == lower(browser_name) IN
    IF cache_key \in DOMAIN cache
    THEN [cache |-> cache, out |-> cache[cache_key], invoked |-> "none",
          raised |-> FALSE, logs |-> <<>>]
    ELSE CookieDecryptor_get_decrypted_cookies_uncached(browser_name, available, cache,
                                                        jar)

\* Sampled names and jars.
OracleNames ==
    {<<71, 111, 111, 103, 108, 101, 32, 67, 104, 114, 111, 109, 101>>,
     <<71, 79, 79, 71, 76, 69, 32, 67, 72, 82, 79, 77, 69>>,
     <<67, 104, 114, 111, 109, 105, 117, 109>>}
JarCookie(value) ==
    [domain |-> <<46, 97, 46, 99, 111, 109>>, name |-> <<115, 105, 100>>, value |-> value]
Jars ==
    {Jar(<<JarCookie(<<100, 101, 99>>)>>, -1),
     Jar(<<JarCookie(<<110, 101, 119>>)>>, -1),
     Jar(<<JarCookie(<<100, 101, 99>>), JarCookie(<<110, 101, 119>>)>>, -1),
     Jar(<<JarCookie(<<100, 101, 99>>), JarCookie(<<110, 101, 119>>)>>, 1),
     Jar(<<JarCookie(<<100, 101, 99>>)>>, 0)}

NoDecryptor == [available |-> FALSE, cache |-> <<>>]

OracleIdle == decryptor = NoDecryptor /\ lookups = <<>>

(***************************************************************************)
(* The Extensions folder and its scan.                                     *)
(***************************************************************************)
MaxVersions == 3    \* SpecExtensions: version directories under one Extensions folder

\* A manifest.json: a text that is no JSON, a JSON value that is no object
\* (empty or not), or an object with the keys the parser reads.
Manifest(json, name, permissions) ==
    [json |-> json, name |-> name, permissions |-> permissions]
ListValue(items) == [type |-> "list", items |-> items]

\* ManifestParser._parse_extension_manifest: {} when open or json.load
\* raises, else the value of the document.
parse_extension_manifest(manifest) ==
    IF manifest.json = "invalid" THEN Manifest("empty", Absent, Absent) ELSE manifest

\* ExtensionLocalizationHandler._get_localized_name with no _locales file:
\* name.startswith is looked up on whatever manifest.get returned, and
\* manifest.get on whatever the document holds.
get_localized_name(manifest) ==
    IF manifest.json # "object" THEN Raised("AttributeError")
    ELSE LET name == get(manifest.name, StrValue(<<>>))
         IN  IF name.type # "str" THEN Raised("AttributeError")
             ELSE Returned(name.chars)

RECURSIVE JoinFrom(_, _)
JoinFrom(items, n) ==
    IF n > Len(items) THEN <<>>
    ELSE (IF n = 1 THEN <<>> ELSE <<44, 32>>) \o items[n].chars \o JoinFrom(items, n + 1)

\* PermissionsFormatter._format_permissions: ', '.join(permissions) for a
\* list (TypeError when an item is no str), str(permissions) otherwise.
format_permissions(permissions) ==
    IF permissions.type = "list"
    THEN (IF \E n \in DOMAIN permissions.items : permissions.items[n].type # "str"
          THEN Raised("TypeError")
          ELSE Returned(JoinFrom(permissions.items, 1)))
    ELSE Returned(permissions.chars)

\* The body of the loop for one version directory: nothing without a
\* manifest.json or with a falsy manifest, else the record, or the
\* exception that building it raises.
version_record(entry, browser_name, extensions_path) ==
    LET manifest == parse_extension_manifest(entry.manifest)
        name == get_localized_name(manifest)
        permissions_str == format_permissions(get(manifest.permissions, ListValue(<<>>)))
    IN  IF ~entry.has_manifest \/ manifest.json = "empty"
        THEN [raised |-> "none", recs |-> <<>>]
        ELSE IF name.raised # "none" THEN [raised |-> name.raised, recs |-> <<>>]
        ELSE IF permissions_str.raised # "none"
             THEN [raised |-> permissions_str.raised, recs |-> <<>>]
        ELSE [raised |-> "none",
              recs |-> <<[browser |-> browser_name, ext_id |-> entry.ext_id,
                          version |-> entry.version, name |-> name.text,
                          permissions |-> permissions_str.text,
                          source |-> PathJoin(PathJoin(PathJoin(extensions_path,
                                                                entry.ext_id),
                                                       entry.version),
                                              "manifest.json")]>>]

\* _parse_chrome_extensions from os.listdir on: the version directories in
\* the order of the listing, inside one try/except Exception around the
\* whole scan: the first exception ends it and the records built so far are
\* returned.
extensions_from_listing(entries, browser_name, extensions_path) ==
    LET raising == {n \in DOMAIN entries :
                      version_record(entries[n], browser_name,
                                     extensions_path).raised # "none"}
        stop == IF raising = {} THEN Len(entries) + 1
                ELSE CHOOSE n \in raising : \A m \in raising : n <= m
    IN  Flatten([n \in 1..(stop - 1) |->
                   version_record(entries[n], browser_name, extensions_path).recs])

\* Sampled manifests and listings.
GoodManifest ==
    Manifest("object", StrValue(<<97>>), ListValue(<<StrValue(<<116, 97, 98, 115>>)>>))
Manifests ==
    {GoodManifest,
     Manifest("invalid", Absent, Absent),
     Manifest("array", Absent, Absent),
     Manifest("object", IntValue(0, 0, 5), ListValue(<<>>)),
     Manifest("object", StrValue(<<97>>),
              ListValue(<<StrValue(<<116, 97, 98, 115>>), IntValue(0, 0, 1)>>)),
     Manifest("object", Absent, StrValue(<<42>>))}
ExtensionIds == <<"aaaa", "bbbb", "cccc", "dddd">>
Entries ==
    {[version |-> "1.0", has_manifest |-> h, manifest |-> m] :
       h \in BOOLEAN, m \in Manifests}
    \ {[version |-> "1.0", has_manifest |-> FALSE, manifest |-> m] :
          m \in Manifests \ {GoodManifest}}
Listings ==
    UNION {{[n \in 1..len |->
               [ext_id |-> ExtensionIds[n], version |-> e[n].version,
                has_manifest |-> e[n].has_manifest, manifest |-> e[n].manifest]] :
              e \in [1..len -> Entries]} :
           len \in 0..MaxVersions}

NotScanned == [done |-> FALSE, results |-> <<>>]

ExtensionsIdle == listing = <<>> /\ extensions = NotScanned

MoreIdle == BookmarksIdle /\ OracleIdle /\ ExtensionsIdle

UnitIdle == CookieIdle /\ SizeIdle /\ HistoryIdle /\ MoreIdle

(***************************************************************************)
(* One run of Start.                                                       *)
(***************************************************************************)
NoRecord == [browser |-> "", row |-> 0, source |-> ""]
SinkCall(name) == [call |-> name, rec |-> NoRecord]

NoPass ==
    [b |-> 0, fault |-> "none", way |-> "none", entered |-> FALSE, warned |-> 0,
     nrec |-> 0]

Noisy(entries) == SelectSeq(entries, LAMBDA x : x.level \in {"Warn", "Error"})

NoProbe == [k |-> "History", b |-> 1, st |-> "absent",
            e |-> Env(FALSE, "ok", "ok", "ok", "ok", NoStore)]

RunIdle ==
    /\ kind = "History" /\ connected = FALSE /\ cookie3 = FALSE
    /\ fs = [b \in Browsers |-> "absent"]
    /\ disk = <<>> /\ pc = "idle" /\ found = <<>> /\ i = 0 /\ last = NoPass
    /\ all_records = <<>> /\ written = 0 /\ sink = <<>> /\ log = <<>>
    /\ contrib = [b \in Browsers |-> 0]
    /\ uiredraw = "returns" /\ reported = <<>> /\ tasks = <<>> /\ cancel = -1

PassIdle == probe = NoProbe /\ result = NewPass(<<>>)

TimeIdle ==
    /\ ta = NoneValue /\ tb = NoneValue /\ tz = "UTC" /\ conv = "none"
    /\ ra = Returned(<<>>) /\ rb = Returned(<<>>)

\* progress = 10 + (i * 70 // max(n, 1)) for the entry of index i (from 0).
BrowserProgress(index, n) == 10 + ((index * 70) \div (IF n > 1 THEN n ELSE 1))

\* The progress values Start awaits UIREDRAW with before the pass of the
\* located browser that follows `passes` ended passes.  History: the value
\* of that browser.  Extensions: the loop runs over the whole catalogue and
\* reports every entry, installed or not, so the values of the entries up
\* to that browser.  Cookies and Bookmarks report nothing per browser;
\* Downloads creates a task instead.
LoopProgress(k, located, passes) ==
    CASE k = "History" -> <<BrowserProgress(passes, Len(located))>>
      [] k = "Extensions" ->
           LET from == IF passes = 0 THEN 1 ELSE located[passes] + 1
               to == located[passes + 1]
           IN  [j \in 1..(to - from + 1) |->
                  BrowserProgress(from + j - 2, Len(SUPPORTED_BROWSERS))]
      [] OTHER -> <<>>

\* What is awaited between the last pass and the first WriteRecord: the
\* entries of the catalogue after the last located browser (Extensions),
\* then 80.
BeforeWrite(k, located) ==
    IF k = "Bookmarks" THEN <<>>
    ELSE IF k = "Extensions"
         THEN LET from == IF located = <<>> THEN 1 ELSE located[Len(located)] + 1
              IN  [j \in 1..(Len(SUPPORTED_BROWSERS) - from + 1) |->
                     BrowserProgress(from + j - 2, Len(SUPPORTED_BROWSERS))]
                    \o <<80>>
    ELSE <<80>>

\* Calls received by UIREDRAW: the value and the number of passes ended.
Report(values, passes) ==
    [n \in DOMAIN values |-> [value |-> values[n], passes |-> passes]]

\* await UIREDRAW(text, value) for each of the values in turn.  A callback
\* that returns at once never yields to the event loop.  One that suspends
\* lets the loop run the tasks created so far and deliver a requested
\* cancellation (CancelledError is raised at the await).  One that raises
\* ends Start with its exception, one that never completes leaves Start
\* suspended for ever.
Await(values, passes, before, pending) ==
    IF values = <<>> THEN [pc |-> "go", reported |-> before, tasks |-> pending]
    ELSE LET first == Report(<<Head(values)>>, passes)
             rest == Report(Tail(values), passes)
             ran == Report(pending, passes)
         IN  CASE uiredraw = "returns" ->
                    [pc |-> "go", reported |-> before \o first \o rest, tasks |-> pending]
               [] uiredraw = "suspends" ->
                    IF cancel >= 0
                    THEN [pc |-> "cancelled", reported |-> before \o first \o ran,
                          tasks |-> <<>>]
                    ELSE [pc |-> "go", reported |-> before \o first \o ran \o rest,
                          tasks |-> <<>>]
               [] uiredraw = "raises" ->
                    [pc |-> "aborted", reported |-> before \o first, tasks |-> pending]
               [] OTHER ->
                    [pc |-> "blocked", reported |-> before \o first, tasks |-> pending]

UIRedraws == {"returns", "suspends", "raises", "hangs"}

InitRun(callbacks) ==
    /\ kind \in Kinds
    /\ connected \in BOOLEAN
    /\ cookie3 \in (IF kind = "Cookies" THEN BOOLEAN ELSE {FALSE})
    /\ fs \in {f \in [Browsers -> FileStatus] :
                 Cardinality({b \in Browsers : f[b] # "absent"}) <= MaxInstalled}
    /\ disk = <<>>
    /\ pc = "start"
    /\ found = <<>>
    /\ i = 0
    /\ last = NoPass
    /\ all_records = <<>>
    /\ written = 0
    /\ sink = <<>>
    /\ log = <<>>
    /\ contrib = [b \in Browsers |-> 0]
    /\ uiredraw \in callbacks
    /\ reported = <<>>
    /\ tasks = <<>>
    /\ cancel = -1
    /\ PassIdle
    /\ TimeIdle
    /\ UnitIdle

\* The run the module's tests make: UIREDRAW returns at once and nothing
\* cancels the run.
Init == InitRun({"returns"})

\* Start up to the browser search: the connection check (Bookmarks has
\* none), then SetFields and CreateDatabaseTables, then the progress 10
\* (Bookmarks reports no progress).
Start ==
    /\ pc = "start"
    /\ IF kind # "Bookmarks" /\ ~connected
       THEN /\ pc' = "returned"
            /\ UNCHANGED <<sink, reported, tasks>>
       ELSE LET a == Await(IF kind = "Bookmarks" THEN <<>> ELSE <<10>>, i, reported, tasks)
            IN  /\ sink' = sink \o <<SinkCall("SetFields"),
                                     SinkCall("CreateDatabaseTables")>>
                /\ reported' = a.reported
                /\ tasks' = a.tasks
                /\ pc' = IF a.pc = "go" THEN "discover" ELSE a.pc
    /\ UNCHANGED <<kind, connected, cookie3, fs, disk, found, i, last, all_records,
                   written, log, contrib, uiredraw, cancel>>
    /\ UNCHANGED <<passVars, timeVars, unitVars>>

\* find_browser_history_paths / BrowserFinder.get_*_paths
Discover ==
    /\ pc = "discover"
    /\ found' = Locate(kind, fs)
    /\ pc' = "loop"
    /\ UNCHANGED <<kind, connected, cookie3, fs, disk, i, last, all_records, written,
                   sink, log, contrib, uiredraw, reported, tasks, cancel>>
    /\ UNCHANGED <<passVars, timeVars, unitVars>>

\* One iteration of the loop over the located browsers: the progress of the
\* browser (awaited in History and Extensions, handed to
\* asyncio.create_task in Downloads), LOG.Info, the parser's pass,
\* all_records.extend(records).  An exception the parser lets through ends
\* Start.
ProcessBrowser ==
    /\ pc = "loop"
    /\ i < Len(found)
    /\ LET b == found[i + 1]
           created == IF kind = "Downloads"
                      THEN <<BrowserProgress(i, Len(found))>> ELSE <<>>
           a == Await(LoopProgress(kind, found, i), i, reported, tasks \o created)
       IN  /\ reported' = a.reported
           /\ tasks' = a.tasks
           /\ IF a.pc # "go"
              THEN /\ pc' = a.pc
                   /\ UNCHANGED <<fs, disk, log, last, i, all_records, contrib>>
              ELSE \E e \in {x \in Envs(kind, fs[b], MaxRunRows) :
                               kind = "Cookies" => (x.oracle = "unavailable" <=> ~cookie3)} :
                     LET p == Parse(kind, b, e, disk)
                         info == IF kind = "Bookmarks" THEN <<>>
                                 ELSE <<LogEntry("Info", kind)>>
                     IN  /\ fs' = IF e.gone THEN [fs EXCEPT ![b] = "absent"] ELSE fs
                         /\ disk' = p.disk
                         /\ log' = log \o info \o p.logs
                         /\ last' = [b |-> b, fault |-> Fault(kind, e), way |-> p.way,
                                     entered |-> p.entered,
                                     warned |-> Len(Noisy(SubSeq(p.logs, p.mark + 1,
                                                                 Len(p.logs)))),
                                     nrec |-> Len(p.results)]
                         /\ IF p.exc # "none"
                            THEN /\ pc' = "aborted"
                                 /\ UNCHANGED <<i, all_records, contrib>>
                            ELSE /\ pc' = "loop"
                                 /\ i' = i + 1
                                 /\ all_records' = all_records \o p.results
                                 /\ contrib' = [contrib EXCEPT ![b] = Len(p.results)]
    /\ UNCHANGED <<kind, connected, cookie3, found, written, sink, uiredraw, cancel>>
    /\ UNCHANGED <<passVars, timeVars, unitVars>>

\* for record in all_records: output_writer.WriteRecord(record); the first
\* one comes after the progress 80.
WriteRecord ==
    /\ pc = "loop"
    /\ i = Len(found)
    /\ written < Len(all_records)
    /\ LET a == Await(IF written = 0 THEN BeforeWrite(kind, found) ELSE <<>>, i,
                      reported, tasks)
       IN  /\ reported' = a.reported
           /\ tasks' = a.tasks
           /\ IF a.pc # "go"
              THEN /\ pc' = a.pc
                   /\ UNCHANGED <<sink, written>>
              ELSE /\ pc' = pc
                   /\ sink' = Append(sink, [call |-> "WriteRecord",
                                            rec |-> all_records[written + 1]])
                   /\ written' = written + 1
    /\ UNCHANGED <<kind, connected, cookie3, fs, disk, found, i, last, all_records,
                   log, contrib, uiredraw, cancel>>
    /\ UNCHANGED <<passVars, timeVars, unitVars>>

\* The progress 95 (after 80 when no record was written), RemoveTempTables,
\* CreateDatabaseIndexes, SetInfo, WriteMeta, CloseOutput, the progress 100
\* and the return of {MODULENAME: GetDBName()}.
Finish ==
    /\ pc = "loop"
    /\ i = Len(found)
    /\ written = Len(all_records)
    /\ LET before == IF kind = "Bookmarks" THEN <<>>
                     ELSE (IF written = 0 THEN BeforeWrite(kind, found) ELSE <<>>)
                            \o <<95>>
           a == Await(before, i, reported, tasks)
           z == Await(IF kind = "Bookmarks" THEN <<>> ELSE <<100>>, i, a.reported, a.tasks)
       IN  IF a.pc # "go"
           THEN /\ pc' = a.pc
                /\ reported' = a.reported
                /\ tasks' = a.tasks
                /\ sink' = sink
           ELSE /\ sink' = sink \o <<SinkCall("RemoveTempTables"),
                                     SinkCall("CreateDatabaseIndexes"),
                                     SinkCall("SetInfo"), SinkCall("WriteMeta"),
                                     SinkCall("CloseOutput")>>
                /\ reported' = z.reported
                /\ tasks' = z.tasks
                /\ pc' = IF z.pc = "go" THEN "done" ELSE z.pc
    /\ UNCHANGED <<kind, connected, cookie3, fs, disk, found, i, last, all_records,
                   written, log, contrib, uiredraw, cancel>>
    /\ UNCHANGED <<passVars, timeVars, unitVars>>

Next == Start \/ Discover \/ ProcessBrowser \/ WriteRecord \/ Finish

Spec == Init /\ [][Next]_vars

(***************************************************************************)
(* One run of Start on the event loop: UIREDRAW may return at once,        *)
(* suspend, raise or never complete, the tasks Start created run when it   *)
(* yields or ends, and the task of Start may be cancelled from outside.    *)
(***************************************************************************)
InitAsync == InitRun(UIRedraws)

Running == {"start", "discover", "loop"}

\* task.cancel() on the task of Start, requested once while it runs; the
\* request is noted with the number of passes ended by then.
Cancel ==
    /\ pc \in Running
    /\ cancel = -1
    /\ cancel' = i
    /\ UNCHANGED <<kind, connected, cookie3, fs, disk, pc, found, i, last, all_records,
                   written, sink, log, contrib, uiredraw, reported, tasks>>
    /\ UNCHANGED <<passVars, timeVars, unitVars>>

\* The event loop runs the tasks that are still pending when Start has
\* ended or is left suspended.
RunTasks ==
    /\ pc \notin Running
    /\ tasks # <<>>
    /\ reported' = reported \o Report(tasks, i)
    /\ tasks' = <<>>
    /\ UNCHANGED <<kind, connected, cookie3, fs, disk, pc, found, i, last, all_records,
                   written, sink, log, contrib, uiredraw, cancel>>
    /\ UNCHANGED <<passVars, timeVars, unitVars>>

NextAsync == Next \/ Cancel \/ RunTasks

SpecAsync == InitAsync /\ [][NextAsync]_vars

(***************************************************************************)
(* One pass of one parser, alone.                                          *)
(***************************************************************************)
InitPass ==
    /\ probe \in {[k |-> k, b |-> b, st |-> st, e |-> e] :
                    k \in Kinds, b \in Browsers, st \in {"readable", "unreadable"},
                    e \in UNION {Envs(k2, st2, MaxRows) :
                                   k2 \in Kinds, st2 \in {"readable", "unreadable"}}}
    /\ probe.e \in Envs(probe.k, probe.st, MaxRows)
    /\ result = NewPass(<<>>)
    /\ RunIdle
    /\ TimeIdle
    /\ UnitIdle

\* The parser's method, from its call to its return (or to the exception it
\* lets through).
RunParser ==
    /\ result.way = "running"
    /\ result.exc = "none"
    /\ result' = Parse(probe.k, probe.b, probe.e, result.disk)
    /\ UNCHANGED probe
    /\ UNCHANGED <<runVars, timeVars, unitVars>>

NextPass == RunParser

SpecPass == InitPass /\ [][NextPass]_vars

(***************************************************************************)
(* The converters, each applied to two sampled values under one zone.      *)
(***************************************************************************)
InitTime ==
    /\ ta \in Samples
    /\ tb \in Samples
    /\ tz \in Zones
    /\ conv = "none"
    /\ ra = Returned(<<>>)
    /\ rb = Returned(<<>>)
    /\ RunIdle
    /\ PassIdle
    /\ UnitIdle

ConvertCommon ==
    /\ conv = "none"
    /\ conv' = "common"
    /\ ra' = Common_convert_chrome_time(ta)
    /\ rb' = Common_convert_chrome_time(tb)
    /\ UNCHANGED <<ta, tb, tz>>
    /\ UNCHANGED <<runVars, passVars, unitVars>>

ConvertInterfaces ==
    /\ conv = "none"
    /\ conv' = "interfaces"
    /\ ra' = Interfaces_convert_chrome_time(ta, tz)
    /\ rb' = Interfaces_convert_chrome_time(tb, tz)
    /\ UNCHANGED <<ta, tb, tz>>
    /\ UNCHANGED <<runVars, passVars, unitVars>>

ConvertHistory ==
    /\ conv = "none"
    /\ conv' = "history"
    /\ ra' = TimeConverter_convert_chrome_time(ta, tz)
    /\ rb' = TimeConverter_convert_chrome_time(tb, tz)
    /\ UNCHANGED <<ta, tb, tz>>
    /\ UNCHANGED <<runVars, passVars, unitVars>>

NextTime == ConvertCommon \/ ConvertInterfaces \/ ConvertHistory

SpecTime == InitTime /\ [][NextTime]_vars

(***************************************************************************)
(* The resolution of one cookie's value.                                   *)
(***************************************************************************)
InitCookie ==
    /\ cookie \in {Cookie(n, h, v, e, o) :
                     n \in CookieNames, h \in HostKeys, v \in PlainValues,
                     e \in EncryptedValues, o \in OracleMaps}
    /\ resolved = Unresolved
    /\ RunIdle
    /\ PassIdle
    /\ TimeIdle
    /\ SizeIdle
    /\ HistoryIdle
    /\ MoreIdle

GetCookieValue ==
    /\ resolved.call = "none"
    /\ resolved' = [call |-> "get_cookie_value",
                    out |-> get_cookie_value(cookie.name, cookie.host_key, cookie.value,
                                             cookie.encrypted_value,
                                             cookie.decrypted_cookies)]
    /\ UNCHANGED cookie
    /\ UNCHANGED <<runVars, passVars, timeVars, sizeVars, historyVars, moreVars>>

DecryptCookieValue ==
    /\ resolved.call = "none"
    /\ resolved' = [call |-> "_decrypt_cookie_value",
                    out |-> decrypt_cookie_value(cookie.encrypted_value)]
    /\ UNCHANGED cookie
    /\ UNCHANGED <<runVars, passVars, timeVars, sizeVars, historyVars, moreVars>>

NextCookie == GetCookieValue \/ DecryptCookieValue

SpecCookie == InitCookie /\ [][NextCookie]_vars

(***************************************************************************)
(* The progress and the sizes of one download.                             *)
(***************************************************************************)
InitSize ==
    /\ sized \in SizedInputs
    /\ shown = NotShown
    /\ RunIdle
    /\ PassIdle
    /\ TimeIdle
    /\ CookieIdle
    /\ HistoryIdle
    /\ MoreIdle

ComputeProgress ==
    /\ sized.op = "progress"
    /\ ~shown.done
    /\ shown' = [done |-> TRUE,
                 progress |-> progress(IntOrZero(sized.received), IntOrZero(sized.total)),
                 text |-> <<>>]
    /\ UNCHANGED sized
    /\ UNCHANGED <<runVars, passVars, timeVars, cookieVars, historyVars, moreVars>>

FormatFileSize ==
    /\ sized.op = "size"
    /\ ~shown.done
    /\ shown' = [done |-> TRUE, progress |-> 0, text |-> format_file_size(sized.size)]
    /\ UNCHANGED sized
    /\ UNCHANGED <<runVars, passVars, timeVars, cookieVars, historyVars, moreVars>>

NextSize == ComputeProgress \/ FormatFileSize

SpecSize == InitSize /\ [][NextSize]_vars

(***************************************************************************)
(* parse_history on a copied, opened store with a urls table.              *)
(***************************************************************************)
InitHistory ==
    /\ urls \in UrlTables(MaxUrls)
    /\ history = NoHistory
    /\ RunIdle
    /\ PassIdle
    /\ TimeIdle
    /\ CookieIdle
    /\ SizeIdle
    /\ MoreIdle

ParseHistory ==
    /\ ~history.done
    /\ \E fetched \in select_urls(urls) :
          history' = history_from_query(fetched, <<117>>, BrowserName(1), tz)
    /\ UNCHANGED urls
    /\ UNCHANGED <<runVars, passVars, timeVars, cookieVars, sizeVars, moreVars>>

NextHistory == ParseHistory

SpecHistory == InitHistory /\ [][NextHistory]_vars

(***************************************************************************)
(* _parse_chrome_bookmarks on a Bookmarks file that exists.                *)
(***************************************************************************)
InitBookmarks ==
    /\ bookmarks \in Documents
    /\ marks = NoMarks
    /\ RunIdle
    /\ PassIdle
    /\ TimeIdle
    /\ CookieIdle
    /\ SizeIdle
    /\ HistoryIdle
    /\ OracleIdle
    /\ ExtensionsIdle

ParseBookmarks ==
    /\ ~marks.done
    /\ marks' = [done |-> TRUE,
                 results |-> bookmarks_from_json(bookmarks, OrigPath("Bookmarks", 1),
                                                 BrowserName(1), tz)]
    /\ UNCHANGED bookmarks
    /\ UNCHANGED <<runVars, passVars, timeVars, cookieVars, sizeVars, historyVars,
                   oracleVars, extensionVars>>

NextBookmarks == ParseBookmarks

SpecBookmarks == InitBookmarks /\ [][NextBookmarks]_vars

(***************************************************************************)
(* The calls of _get_decrypted_cookies on one CookieDecryptor.             *)
(***************************************************************************)
InitOracle ==
    /\ decryptor \in {[available |-> a, cache |-> <<>>] : a \in BOOLEAN}
    /\ lookups = <<>>
    /\ RunIdle
    /\ PassIdle
    /\ TimeIdle
    /\ CookieIdle
    /\ SizeIdle
    /\ HistoryIdle
    /\ BookmarksIdle
    /\ ExtensionsIdle

GetDecryptedCookies ==
    /\ Len(lookups) < MaxLookups
    /\ \E browser_name \in OracleNames, jar \in Jars :
          LET r == CookieDecryptor_get_decrypted_cookies(browser_name,
                                                         decryptor.available,
                                                         decryptor.cache, jar)
          IN  /\ decryptor' = [decryptor EXCEPT !.cache = r.cache]
              /\ lookups' = Append(lookups, [name |-> browser_name, out |-> r.out,
                                             invoked |-> r.invoked,
                                             raised |-> r.raised])
    /\ UNCHANGED <<runVars, passVars, timeVars, cookieVars, sizeVars, historyVars,
                   bookmarkVars, extensionVars>>

NextOracle == GetDecryptedCookies

SpecOracle == InitOracle /\ [][NextOracle]_vars

(***************************************************************************)
(* _parse_chrome_extensions on an Extensions folder that can be listed.    *)
(***************************************************************************)
InitExtensions ==
    /\ listing \in Listings
    /\ extensions = NotScanned
    /\ RunIdle
    /\ PassIdle
    /\ TimeIdle
    /\ CookieIdle
    /\ SizeIdle
    /\ HistoryIdle
    /\ BookmarksIdle
    /\ OracleIdle

ParseExtensions ==
    /\ ~extensions.done
    /\ extensions' = [done |-> TRUE,
                      results |-> extensions_from_listing(listing, BrowserName(1),
                                                          OrigPath("Extensions", 1))]
    /\ UNCHANGED listing
    /\ UNCHANGED <<runVars, passVars, timeVars, cookieVars, sizeVars, historyVars,
                   bookmarkVars, oracleVars>>

NextExtensions == ParseExtensions

SpecExtensions == InitExtensions /\ [][NextExtensions]_vars

(***************************************************************************)
(* Properties of the run (Spec) and of one pass (SpecPass).                *)
(***************************************************************************)
Range(q) == {q[n] : n \in DOMAIN q}

WrittenRecords == SelectSeq(sink, LAMBDA c : c.call = "WriteRecord")

\* The pass that ended last failed at a step of the snapshot's life.
StepFaults == {"copy", "connect", "check", "driver", "schema"}

\* C1: for the SQLite-backed parsers, once a pass has acquired its snapshot
\* and left the scope (normally, by the table-absent return or by an
\* exception), its temporary copy is not on disk, and it stays absent until
\* the next browser's pass starts.
Thm_C1 ==
    (kind \in SQLiteKinds /\ last.entered)
        => TempPath(kind, last.b) \notin DOMAIN disk

\* The scope was left by an exception, by the early return and normally,
\* with another browser still to come.
Wit_C1 ==
    /\ kind \in SQLiteKinds
    /\ last.entered
    /\ last.way = "exception"
    /\ last.fault \in {"driver", "row"}
    /\ pc = "loop"
    /\ i < Len(found)

\* C2: a failure of one browser's pass (copy, connect, table check, query)
\* never ends the run: it is logged at Warn or Error, the records of that
\* browser are the ones its parser returned, and when the run is done every
\* located browser has been processed and every collected record written.
Thm_C2 ==
    /\ pc # "aborted"
    /\ (kind \in SQLiteKinds /\ last.fault \in StepFaults)
          => (last.warned >= 1 /\ last.nrec = 0)
    /\ pc = "done"
          => /\ i = Len(found)
             /\ Len(WrittenRecords) = Len(all_records)
             /\ \A n \in DOMAIN all_records : WrittenRecords[n].rec = all_records[n]
             /\ \A b \in Browsers :
                   Cardinality({n \in DOMAIN all_records :
                                  all_records[n].browser = BrowserName(b)})
                     = contrib[b]

\* A run that is done, in which one browser failed on the copy and a later
\* one delivered a record that was written.
Wit_C2 ==
    /\ pc = "done"
    /\ kind \in SQLiteKinds
    /\ Len(found) >= 2
    /\ last.b = found[Len(found)]
    /\ last.nrec >= 1
    /\ contrib[found[1]] = 0
    /\ \E n \in DOMAIN log : log[n].level \in {"Warn", "Error"}
    /\ \E n \in DOMAIN sink :
          sink[n].call = "WriteRecord" /\ sink[n].rec.browser = BrowserName(last.b)

\* C4: the located browsers are in declaration order, each pass is the pass
\* of the next located browser, and the records reach the sink with their
\* browsers non-decreasing in declaration order.
Thm_C4 ==
    /\ \A m, n \in DOMAIN found : m < n => found[m] < found[n]
    /\ (pc \in {"loop", "done"} /\ i > 0) => last.b = found[i]
    /\ \A m, n \in DOMAIN WrittenRecords :
          m <= n => DeclIndex(WrittenRecords[m].rec.browser)
                      <= DeclIndex(WrittenRecords[n].rec.browser)

\* Records of two different browsers have been written.
Wit_C4 ==
    \E m, n \in DOMAIN WrittenRecords :
       /\ m < n
       /\ DeclIndex(WrittenRecords[m].rec.browser)
            < DeclIndex(WrittenRecords[n].rec.browser)

\* C5 as stated: right after the discovery, a browser is in the list if and
\* only if its profile file exists and is readable.
Orig_C5 ==
    (pc = "loop" /\ i = 0 /\ kind # "Bookmarks")
        => \A b \in Browsers : (b \in Range(found)) <=> (fs[b] = "readable")

\* C5 amended: right after the discovery, a browser is in the list if and
\* only if its profile file exists (os.path.exists), readable or not; the
\* discovery always returns.
Thm_C5 ==
    /\ (pc = "loop" /\ i = 0 /\ kind # "Bookmarks")
          => \A b \in Browsers :
                (b \in Range(found)) <=> (fs[b] \in {"readable", "unreadable"})
    /\ pc = "loop" => Len(found) <= Len(SUPPORTED_BROWSERS)

\* The discovery has listed an unreadable file and left out a path it could
\* not reach.
Wit_C5 ==
    /\ pc = "loop" /\ i = 0 /\ kind # "Bookmarks"
    /\ \E b \in Browsers : fs[b] = "unreadable" /\ b \in Range(found)
    /\ \E b \in Browsers : fs[b] = "noaccess" /\ b \notin Range(found)

Ran == result.way # "running"

\* C3 as stated: whatever the artifact kind, the only access a parser makes
\* to an original profile file is the read of the copy step.
Orig_C3 ==
    Ran => \A a \in result.acc : a.path \in OrigPaths => a.op = "copy_read"

\* C3 amended: the SQLite-backed parsers (history, cookies, downloads) touch
\* the original only by the read of the copy step and query the temporary
\* copy; the bookmarks and extensions parsers read the original in place;
\* no parser connects to, creates or removes an original profile file.
Thm_C3 ==
    Ran => /\ \A a \in result.acc :
                a.path \in OrigPaths
                  => a.op = (IF probe.k \in SQLiteKinds THEN "copy_read" ELSE "read")
           /\ \A a \in result.acc :
                a.op \in {"connect", "query"}
                  => a.path = TempPath(probe.k, probe.b)

\* A history pass that copied, connected, queried and returned a record.
Wit_C3 ==
    /\ Ran
    /\ probe.k = "History"
    /\ Len(result.results) >= 1
    /\ Access(OrigPath("History", probe.b), "copy_read") \in result.acc
    /\ Access(TempPath("History", probe.b), "query") \in result.acc

\* C7 as stated: whatever subset of the 15 columns the cookies table has,
\* a cookies pass that opens the snapshot and meets no driver failure and
\* no malformed row returns one record per row.
Claim_C7 ==
    (/\ Ran
     /\ probe.k = "Cookies"
     /\ ~probe.e.gone
     /\ probe.e.copy = "ok" /\ probe.e.connect = "ok" /\ probe.e.check = "ok"
     /\ probe.e.query = "ok"
     /\ probe.e.store.table
     /\ \A n \in DOMAIN probe.e.store.rows : probe.e.store.rows[n] = "ok")
        => Len(result.results) = Len(probe.e.store.rows)

(***************************************************************************)
(* Properties of the converters (SpecTime).                                *)
(***************************************************************************)
Converted == conv # "none"

\* A timestamp after 9999-12-31T23:59:59.999999Z.
PastCalendar(t) == t.type = "int" /\ t.days > DaysFromCivil(9999, 12, 31)

\* C8 as stated: each of the three converters returns the empty string for
\* 0, for None and for the text "0", and raises nothing.
Claim_C8 ==
    (Converted /\ (EqualsZero(ta) \/ ta = NoneValue \/ EqualsStrZero(ta)))
        => ra = Returned(<<>>)

\* C9 as stated: for a negative timestamp and for one past the calendar
\* range, each of the three converters raises nothing and returns the same
\* sentinel, the empty string.
Claim_C9 ==
    (Converted /\ ta.type = "int" /\ (IsNegative(ta) \/ PastCalendar(ta)))
        => ra = Returned(<<>>)

\* C10 as stated: for all integer timestamps a <= b, zero, negative and
\* past-range ones included, the string a converter returns for a is
\* lexicographically at most the string it returns for b.
Orig_C10 ==
    (Converted /\ ta.type = "int" /\ tb.type = "int" /\ IntLeq(ta, tb))
        => LexLeq(ra.text, rb.text)

\* C10 amended: for integer timestamps 0 < a <= b with b inside the range
\* the converter can represent (it returns a date for b), the converter
\* returns a date for a and that string is lexicographically at most the
\* one for b; this for Common/time_utils.convert_chrome_time on every host
\* and for TimeConverter.convert_chrome_time on a host whose zone keeps one
\* UTC offset.
Thm_C10 ==
    (/\ conv = "common" \/ (conv = "history" /\ tz \in FixedZones)
     /\ ta.type = "int" /\ tb.type = "int"
     /\ ~IsNegative(ta) /\ ~IsZero(ta)
     /\ IntLeq(ta, tb)
     /\ rb.text # <<>>)
        => /\ ra.raised = "none" /\ rb.raised = "none"
           /\ ra.text # <<>>
           /\ LexLeq(ra.text, rb.text)

\* Two positive timestamps of different months, converted to two dates in
\* a zone three hours ahead of UTC.
Wit_C10 ==
    /\ conv = "history" /\ tz = "<+03>-3"
    /\ ta.type = "int" /\ tb.type = "int"
    /\ ~IsNegative(ta) /\ ~IsZero(ta)
    /\ IntLeq(ta, tb)
    /\ ra.text # <<>> /\ rb.text # <<>>
    /\ Civil(ta.days).month # Civil(tb.days).month
    /\ ~LexLeq(rb.text, ra.text)

\* An integer timestamp after 1601-01-01T00:00:00Z whose second lies in the
\* years datetime holds.
PositiveInRange(t) ==
    t.type = "int" /\ ~IsNegative(t) /\ ~IsZero(t) /\ InDatetimeRange(t.days)

\* C11 as stated: on a host pinned to UTC, each converter renders a positive
\* in-range timestamp t as the calendar time of the second floor(t / 10^6),
\* and 13318267369295313 as '2023.01.15 14:42:49'.
Claim_C11 ==
    (Converted /\ tz = "UTC" /\ PositiveInRange(ta))
        => /\ ra = Returned(strftime([days |-> ta.days, sod |-> ta.sod]))
           /\ ta = IntValue(154146, 52969, 295313)
                 => ra.text = <<50, 48, 50, 51, 46, 48, 49, 46, 49, 53, 32,
                                49, 52, 58, 52, 50, 58, 52, 57>>

(***************************************************************************)
(* Properties of the cookie value resolution (SpecCookie).                 *)
(***************************************************************************)
GotValue == resolved.call = "get_cookie_value"

Contains(text, part) ==
    \E k \in 0..(Len(text) - Len(part)) : SubSeq(text, k + 1, k + Len(part)) = part

\* The blob of the cookie starts with b'v10' or b'v11'.
VersionedBlob ==
    /\ cookie.encrypted_value.type = "bytes"
    /\ \/ StartsWith(cookie.encrypted_value.chars, V10)
       \/ StartsWith(cookie.encrypted_value.chars, V11)

\* C12: a non-empty plaintext value is what get_cookie_value returns, whatever
\* the encrypted blob and the lookup of browser_cookie3 hold.
Thm_C12 ==
    (GotValue /\ Truthy(cookie.value)) => resolved.out = Returned(cookie.value.chars)

Wit_C12 ==
    /\ GotValue
    /\ Truthy(cookie.value)
    /\ InOracle(cookie.name, cookie.host_key, cookie.decrypted_cookies)
    /\ VersionedBlob
    /\ resolved.out = Returned(<<97, 98, 99>>)

\* C13 as stated: with an empty plaintext value and the key host_key|name in
\* the lookup (name and host_key non-empty), get_cookie_value returns the
\* value the lookup holds for that key and raises nothing, whatever the blob.
Claim_C13 ==
    (GotValue /\ ~Truthy(cookie.value)
       /\ InOracle(cookie.name, cookie.host_key, cookie.decrypted_cookies))
        => resolved.out =
             Returned(cookie.decrypted_cookies[LookupKey(cookie.host_key, cookie.name)])

\* C14: with an empty plaintext value and no entry in the lookup, a blob that
\* starts with b'v10' or b'v11' resolves, without an exception, to a
\* placeholder (not the content of the blob) that names the blob's own
\* version prefix and its length in bytes; b'v10' followed by 20 bytes gives
\* a text naming v10 and 23.
Thm_C14 ==
    (GotValue /\ ~Truthy(cookie.value)
       /\ ~InOracle(cookie.name, cookie.host_key, cookie.decrypted_cookies)
       /\ VersionedBlob)
        => /\ resolved.out.raised = "none"
           /\ resolved.out.text # decode_ignore(cookie.encrypted_value.chars)
           /\ Contains(resolved.out.text, SubSeq(cookie.encrypted_value.chars, 1, 3))
           /\ Contains(resolved.out.text, Digits(Len(cookie.encrypted_value.chars)))
           /\ (StartsWith(cookie.encrypted_value.chars, V10)
                 /\ Len(cookie.encrypted_value.chars) = 23)
                => Contains(resolved.out.text, <<50, 51>>)

Wit_C14 ==
    /\ GotValue
    /\ ~Truthy(cookie.value)
    /\ ~InOracle(cookie.name, cookie.host_key, cookie.decrypted_cookies)
    /\ cookie.encrypted_value = BytesValue(V10 \o [k \in 1..20 |-> 255])
    /\ resolved.out = Returned(VersionPlaceholder(<<49, 48>>, 23))

\* C15 as stated: _decrypt_cookie_value returns a string for every stored
\* encrypted_value (bytes, text or number) and lets no exception out.
Claim_C15 ==
    resolved.call = "_decrypt_cookie_value" => resolved.out.raised = "none"

(***************************************************************************)
(* Properties of the row loops (SpecPass).                                 *)
(***************************************************************************)
\* The pass got as far as the row loop of a SQLite-backed parser.
ReachedRows ==
    /\ Ran
    /\ probe.k \in SQLiteKinds
    /\ Fault(probe.k, probe.e) \in {"row", "none"}

\* The records of the well-formed rows of a table, in the order of the rows.
WellFormedRecords(k, b, rs) ==
    LET kept == SelectSeq([n \in DOMAIN rs |-> n], LAMBDA n : rs[n] = "ok")
    IN  [j \in DOMAIN kept |-> MakeRecord(k, b, kept[j])]

\* C16 as stated: in the row loop of the history, downloads and cookies
\* parsers a malformed row is skipped and the loop goes on: the pass returns
\* the records of all the well-formed rows, those before and those after it.
Claim_C16 ==
    ReachedRows
      => result.results = WellFormedRecords(probe.k, probe.b, probe.e.store.rows)

(***************************************************************************)
(* Properties of the progress and the sizes of a download (SpecSize).      *)
(***************************************************************************)
\* C17 as stated: for byte counts received >= 0 and total (NULL counting as
\* 0) the progress is min(100, floor(received * 100 / total)) when total is
\* positive and 0 when total is zero or NULL; (50, 0) gives 0, (50, 100) 50.
Claim_C17 ==
    (shown.done /\ sized.op = "progress" /\ ~sized.received.null
       /\ sized.received.n >= 0 /\ IntOrZero(sized.total) >= 0)
        => shown.progress =
             (IF IntOrZero(sized.total) > 0
              THEN Min(100, (sized.received.n * 100) \div sized.total.n)
              ELSE 0)

\* The sign of the number a vector of base-1024 digits of either sign stands
\* for (least significant first).
RECURSIVE Carried(_, _, _, _)
Carried(v, k, carry, low) ==
    IF k = Len(v) THEN [top |-> v[k] + carry, low |-> low]
    ELSE Carried(v, k + 1, (v[k] + carry) \div 1024, low \/ (v[k] + carry) % 1024 # 0)

Sign(v) ==
    LET c == Carried(v, 1, 0, FALSE)
    IN  IF c.top > 0 THEN 1 ELSE IF c.top < 0 THEN -1 ELSE IF c.low THEN 1 ELSE 0

\* tenths / 10 is within 1/20 of n / 1024^u.
NearestTenths(tenths, n, u) ==
    /\ Sign([k \in DOMAIN n |-> (IF k = u + 1 THEN 2 * tenths + 1 ELSE 0) - 20 * n[k]]) >= 0
    /\ Sign([k \in DOMAIN n |-> 20 * n[k] - (IF k = u + 1 THEN 2 * tenths - 1 ELSE 0)]) >= 0

\* The number of divisions by 1024 after which n is below 1024, at most 4.
Divisions(n) == CHOOSE u \in 0..4 : Below1024(n, u) /\ (u = 0 \/ ~Below1024(n, u - 1))

\* C18: 0 renders as "0 B"; a positive byte count n renders as its value after
\* division by 1024 until it is below 1024 or the unit is TB, shown with one
\* decimal digit (the value to the nearest tenth) and followed by the unit B,
\* KB, MB, GB or TB of that many divisions; 1536 renders as "1.5 KB".
Thm_C18 ==
    (shown.done /\ sized.op = "size")
        => /\ IsZeroCount(sized.size) => shown.text = <<48, 32, 66>>
           /\ ~IsZeroCount(sized.size)
                => \E t \in 0..10 :
                     LET u == Divisions(sized.size)
                         tenths == 10 * sized.size[u + 1] + t
                     IN  /\ NearestTenths(tenths, sized.size, u)
                         /\ shown.text = Digits(tenths \div 10) \o <<46, 48 + (tenths % 10), 32>>
                                            \o Units[u + 1]
           /\ sized.size = <<512, 1, 0, 0, 0>> => shown.text = <<49, 46, 53, 32, 75, 66>>

\* 1024.5 TB stays in TB.
Wit_C18 ==
    /\ shown.done
    /\ sized.size = <<0, 0, 0, 512, 1024>>
    /\ shown.text = <<49, 48, 50, 52, 46, 53, 32, 84, 66>>

(***************************************************************************)
(* Properties of the records (SpecPass).                                   *)
(***************************************************************************)
\* C19 as stated: every record a parser returns carries the display name of
\* the browser in its Browser field and, in its last field (DataSource), the
\* path of the profile file it was read from.
Claim_C19 ==
    Ran => \A n \in DOMAIN result.results :
             /\ result.results[n].browser = BrowserName(probe.b)
             /\ result.results[n].source = SourceFile(probe.k, probe.b)

(***************************************************************************)
(* Properties of parse_history on the rows of a store (SpecHistory).       *)
(***************************************************************************)
\* The record is the one the claim describes for the row: user and browser,
\* url and visit_count copied, NULL title as '', NULL counts and a NULL
\* timestamp as 0, a non-empty date for 13318267369295313.
RecordOfRow(rec, row) ==
    /\ rec.username = <<117>>
    /\ rec.browser = BrowserName(1)
    /\ row.url.type = "str" => rec.url = row.url.chars
    /\ ~row.visit_count.null => rec.visit_count = row.visit_count.n
    /\ row.title.type = "none" => rec.title = <<>>
    /\ row.title.type = "str" => rec.title = row.title.chars
    /\ row.visit_count.null => rec.visit_count = 0
    /\ row.typed_count.null => rec.typed_count = 0
    /\ ~row.typed_count.null => rec.typed_count = row.typed_count.n
    /\ row.last_visit_time.type = "none" => rec.last_visit_time = IntValue(0, 0, 0)
    /\ row.last_visit_time.type = "int" => rec.last_visit_time = row.last_visit_time
    /\ row.last_visit_time = IntValue(154146, 52969, 295313) => rec.visit_date # <<>>

\* One record per row of the table, in descending order of the rows'
\* last_visit_time.
OneRecordPerRow ==
    /\ Len(history.results) = Len(urls)
    /\ \E p \in Orderings(Len(urls)) :
          /\ \A j \in DOMAIN urls : RecordOfRow(history.results[j], urls[p[j]])
          /\ \A j \in 1..(Len(urls) - 1) :
                SqlLeq(urls[p[j + 1]].last_visit_time, urls[p[j]].last_visit_time)

\* Every row holds NULL or a number in last_visit_time.
NumericTimes ==
    \A j \in DOMAIN urls : urls[j].last_visit_time.type \in {"none", "int"}

\* C20 as stated: on a store whose urls table holds n rows parse_history
\* returns n records, one per row, in descending last_visit_time order,
\* with the fields mapped as RecordOfRow says.
Orig_C20 == history.done => OneRecordPerRow

\* C20 amended: the same for a urls table whose rows hold NULL or a number in
\* last_visit_time.
Thm_C20 == (history.done /\ NumericTimes) => OneRecordPerRow

\* Two rows, the older one stored first and holding NULL title and counts:
\* the visit of 2023 comes first, with its date.
Wit_C20 ==
    /\ history.done
    /\ Len(urls) = 2
    /\ urls[1] = UrlRow(StrValue(<<117>>), NoneValue, Null, Null, IntValue(0, 0, 0))
    /\ urls[2].last_visit_time = IntValue(154146, 52969, 295313)
    /\ Len(history.results) = 2
    /\ history.results[1].visit_date
         = <<50, 48, 50, 51, 46, 48, 49, 46, 49, 53, 32, 49, 52, 58, 52, 50, 58, 52, 57>>
    /\ history.results[2].title = <<>>

(***************************************************************************)
(* Properties of the Bookmarks walk (SpecBookmarks).                       *)
(***************************************************************************)
\* Number of nodes of type url reachable from a node through the children
\* of folders.
RECURSIVE UrlCount(_)
UrlCount(node) ==
    IF node.type = "url" THEN 1
    ELSE IF node.type = "folder"
         THEN Len(Flatten([n \in DOMAIN node.children |->
                             [m \in 1..UrlCount(node.children[n]) |-> 0]]))
    ELSE 0

DocumentUrlCount(document) ==
    Len(Flatten([n \in DOMAIN document.roots |->
                   [m \in 1..UrlCount(document.roots[n].node) |-> 0]]))

\* The document of the example: one url node under bookmark_bar, added "0".
OneUrlUnderBar ==
    /\ bookmarks.parseable
    /\ DocumentUrlCount(bookmarks) = 1
    /\ bookmarks.roots[1].name = bookmark_bar
    /\ Len(bookmarks.roots[1].node.children) = 1
    /\ bookmarks.roots[1].node.children[1].type = "url"
    /\ bookmarks.roots[1].node.children[1].date_added = StrValue(<<48>>)

\* C21: parsing a Bookmarks document yields one record per url node that is
\* reachable from the roots through folder children; one url node under
\* bookmark_bar with date_added "0" yields one record with an empty
\* date-added text and a Folder that starts with the label of bookmark_bar.
Claim_C21 ==
    (marks.done /\ bookmarks.parseable)
        => /\ Len(marks.results) = DocumentUrlCount(bookmarks)
           /\ OneUrlUnderBar
                 => /\ Len(marks.results) = 1
                    /\ marks.results[1].date_added_text = <<>>
                    /\ StartsWith(marks.results[1].folder, RootFolderName(bookmark_bar))

(***************************************************************************)
(* Properties of the run on the event loop (SpecAsync).                    *)
(***************************************************************************)
SinkNames == [n \in DOMAIN sink |-> sink[n].call]

\* The sink calls the contract names, in the order received.
ContractCalls ==
    SelectSeq(SinkNames,
              LAMBDA c : c \in {"SetFields", "CreateDatabaseTables", "WriteRecord",
                                "SetInfo", "WriteMeta", "CloseOutput"})

\* Start got past the connection check (Bookmarks makes none).
PassedCheck == pc # "start" /\ pc # "returned"

\* C22: in every run of Start that passes the connection check, also when no
\* browser is found, the sink receives SetFields and CreateDatabaseTables
\* once before any WriteRecord, one WriteRecord per collected record, then
\* SetInfo and WriteMeta once, then CloseOutput once as its last call, and
\* Start returns {MODULENAME: database name}: the run never ends otherwise,
\* and until its return the sink has received a prefix of that sequence.
Claim_C22 ==
    PassedCheck
        => /\ pc \notin {"aborted", "blocked"}
           /\ pc = "done"
                 => /\ ContractCalls
                         = <<"SetFields", "CreateDatabaseTables">>
                             \o [n \in DOMAIN all_records |-> "WriteRecord"]
                             \o <<"SetInfo", "WriteMeta", "CloseOutput">>
                    /\ SinkNames[Len(SinkNames)] = "CloseOutput"
                    /\ \A n \in DOMAIN all_records : WrittenRecords[n].rec = all_records[n]
           /\ pc # "done"
                 => ContractCalls
                      = <<"SetFields", "CreateDatabaseTables">>
                          \o [n \in 1..written |-> "WriteRecord"]

\* C23: when DBCONNECTION.IsConnected() is false, Start of every module
\* returns {} and has called no sink operation, reported no progress
\* (awaited or as a task), searched no browser and read no profile file.
Claim_C23 ==
    (~connected /\ pc # "start")
        => /\ pc = "returned"
           /\ sink = <<>>
           /\ reported = <<>> /\ tasks = <<>>
           /\ found = <<>> /\ last = NoPass /\ log = <<>>

ReportedValues == [n \in DOMAIN reported |-> reported[n].value]

\* Number of entries the per-browser progress is spread over: the located
\* browsers (History, Downloads), the whole catalogue (Extensions).
ProgressEntries ==
    IF kind = "Extensions" THEN Len(SUPPORTED_BROWSERS) ELSE Len(found)

\* Passes ended when the pass of the k-th entry starts (for an entry of the
\* catalogue that is not located: when the run passes over it).
PassesBefore(k) ==
    IF kind = "Extensions"
    THEN Cardinality({n \in DOMAIN found : found[n] < k})
    ELSE k - 1

\* C24: in History, Downloads and Extensions the progress values delivered
\* to the callback during a run are 10, then 10 + floor(i*70/n) for the i-th
\* (from 0) of the n browsers, each below 80 and delivered before that
\* browser is parsed, then 80, 95 and 100; the sequence never decreases.
Claim_C24 ==
    (kind \in {"History", "Downloads", "Extensions"} /\ pc = "done" /\ tasks = <<>>)
        => /\ ReportedValues
                = <<10>> \o [k \in 1..ProgressEntries |->
                               10 + (((k - 1) * 70) \div ProgressEntries)]
                         \o <<80, 95, 100>>
           /\ \A k \in 1..ProgressEntries :
                 /\ reported[1 + k].value < 80
                 /\ reported[1 + k].passes <= PassesBefore(k)
           /\ \A m, n \in DOMAIN reported :
                 m <= n => reported[m].value <= reported[n].value

\* C25: a failure of the progress callback (it raises, or never completes)
\* neither blocks nor aborts the extraction: once the run has passed the
\* connection check it does not stop on the callback, and when it has ended
\* every located browser was parsed, every collected record handed to the
\* sink and the sink closed.
Claim_C25 ==
    (uiredraw \in {"raises", "hangs"} /\ PassedCheck)
        => /\ pc \in Running \cup {"done", "cancelled"}
           /\ pc \notin Running
                 => /\ i = Len(Locate(kind, fs))
                    /\ Len(WrittenRecords) = Len(all_records)
                    /\ "CloseOutput" \in Range(SinkNames)

\* C27: a cancellation requested while browser k is being processed (k
\* passes begun, the k-th not yet followed by another) takes effect before
\* browser k+1 is started, so no further pass begins; and at the moment a
\* cancellation takes effect no snapshot temp file exists.
Claim_C27 ==
    /\ cancel >= 1 => i <= cancel
    /\ pc = "cancelled" => DOMAIN disk = {}

(***************************************************************************)
(* Properties of the snapshot's place and of its acquisition (SpecPass).   *)
(***************************************************************************)
\* The temp path a pass of process `pid` uses for the file of browser b:
\* the name is built from the prefix of the module and the basename of the
\* source, and the process takes no part in it.
Processes == {1, 2}
temp_path(pid, k, b) == TempPath(k, b)

\* The pass made its temporary copy.
Snapshotted ==
    /\ probe.k \in SQLiteKinds
    /\ Access(TempPath(probe.k, probe.b), "create") \in result.acc

\* C26: snapshot temp paths are unique per source path and per process: the
\* temp path a pass used is used by no pass over another source file, and
\* by no pass of another process (of the same or of another module).
Claim_C26 ==
    Snapshotted
        => \A pid \in Processes, k \in SQLiteKinds, b \in Browsers :
              (pid # 1 \/ OrigPath(k, b) # OrigPath(probe.k, probe.b))
                  => temp_path(pid, k, b) # temp_path(1, probe.k, probe.b)

\* C29: when the acquisition of the snapshot fails partway (copy2 raises
\* after creating a partial temp file, or connect raises after the copy),
\* no temp file is left once the pass has ended, in History (failure inside
\* DatabaseManager.__enter__) as in Cookies and Downloads.
Claim_C29 ==
    (/\ probe.k \in SQLiteKinds
     /\ result.way # "running"
     /\ ~probe.e.gone
     /\ \/ probe.e.copy = "fail_partial"
        \/ (probe.e.copy = "ok" /\ probe.e.connect # "ok"))
        => DOMAIN result.disk = {}

(***************************************************************************)
(* Properties of the cache of browser_cookie3 maps (SpecOracle).           *)
(***************************************************************************)
SameBrowser(m, n) == lower(lookups[m].name) = lower(lookups[n].name)

\* C28: within one CookieDecryptor the cookie-jar collection is made at most
\* once per browser name, names compared without case: after the first call
\* for a name, whether its collection succeeded or raised, every later call
\* for that name makes no collection and returns the map of the first call,
\* whatever was collected for other browsers in between.
Thm_C28 ==
    /\ \A n \in DOMAIN lookups :
          Cardinality({m \in DOMAIN lookups :
                         SameBrowser(m, n) /\ lookups[m].invoked # "none"}) <= 1
    /\ \A m, n \in DOMAIN lookups :
          (m < n /\ SameBrowser(m, n))
              => /\ lookups[n].invoked = "none"
                 /\ lookups[n].out = lookups[m].out
    /\ \A key \in DOMAIN decryptor.cache :
          \E n \in DOMAIN lookups :
             /\ lower(lookups[n].name) = key
             /\ lookups[n].invoked # "none"
             /\ decryptor.cache[key] = lookups[n].out

\* A collection for Google Chrome that raised after one cookie, one for
\* Chromium that gave another map, and a later call for GOOGLE CHROME.
Wit_C28 ==
    /\ Len(lookups) = 3
    /\ lookups[1].raised /\ lookups[1].invoked = "chrome"
    /\ lookups[2].invoked = "chromium" /\ lookups[2].out # lookups[1].out
    /\ lookups[3].name # lookups[1].name /\ SameBrowser(1, 3)
    /\ lookups[3].out = lookups[1].out /\ lookups[3].out # <<>>

(***************************************************************************)
(* Properties of the scan of the Extensions folder (SpecExtensions).       *)
(***************************************************************************)
\* A version directory whose manifest is usable: a JSON object that is not
\* empty, with a text (or no) name and permissions that are texts.
Usable(entry) ==
    /\ entry.has_manifest
    /\ entry.manifest.json = "object"
    /\ entry.manifest.name.type \in {"str", "absent"}
    /\ entry.manifest.permissions.type = "list"
          => \A n \in DOMAIN entry.manifest.permissions.items :
                entry.manifest.permissions.items[n].type = "str"

RecordsOf(entry) ==
    {n \in DOMAIN extensions.results : extensions.results[n].ext_id = entry.ext_id}

\* C30: a version directory whose manifest is unusable is skipped without
\* affecting the others: whatever the order of the listing, every version
\* directory with a usable manifest yields exactly one record and the
\* unusable ones none.
Claim_C30 ==
    extensions.done
        => \A n \in DOMAIN listing :
              Cardinality(RecordsOf(listing[n])) = IF Usable(listing[n]) THEN 1 ELSE 0

====
